---- MODULE Spec2Model ----
(***************************************************************************)
(* Model of the magic-keyboard swipe typing pipeline:                      *)
(*   - SwipeEngine (src/src/engine/swipe_engine.cpp): layout load and the  *)
(*     path -> key sequence extractor;                                     *)
(*   - MagicKeyboardEngine::mapPathToSequence (magickeyboard.cpp), the     *)
(*     inline extractor with function-static hysteresis state;             *)
(*   - GestureAgent (src/src/gesture/gesture_agent.h), the tap/swipe       *)
(*     classifier.                                                         *)
(*                                                                         *)
(* Coordinates are integer pixels.  Every comparison the code makes on     *)
(* sqrt() values is restated on the squared distances, so that the result  *)
(* is exact:                                                               *)
(*   d_new < d_cur * 0.72      <=>  10000*d2_new < 5184*d2_cur             *)
(*   d_cur - d_new > 6         <=>  g > 0 /\ g*g > 144*d2_new,             *)
(*                                  g = d2_cur - d2_new - 36               *)
(* A pointer to a Key is the 1-based index of the key in keys_,            *)
(* and 0 is nullptr.                                                       *)
(***************************************************************************)
EXTENDS Integers, Sequences, FiniteSets, TLC

\* ------------------------------------------------------------------------
\* Bounds of the model
\* ------------------------------------------------------------------------
MaxPathLen == 5

MaxMKPathLen == 3

MaxRawLen == 5

MaxTime == 100

\* The longest string handed to levenshtein, and the largest limit.
MaxStrLen == 3

MaxLimit == 2

\* The number of distinct values the scores of one recognize call take.
MaxScoreLevel == 2

\* ------------------------------------------------------------------------
\* Program constants
\* ------------------------------------------------------------------------
RATIO_PERCENT == 72

DISTANCE_GAP_MIN_PX == 6

CONSECUTIVE_SAMPLES_THRESHOLD == 2

MIN_DWELL_FOR_BOUNCE == 2

MAX_KEY_DISTANCE == 100

INITIAL_BEST_DIST_SQ == 1000000000

DEFAULT_KEY_UNIT == 60

DEFAULT_KEY_HEIGHT == 50

DEFAULT_KEY_SPACING == 6

\* ------------------------------------------------------------------------
\* Geometry (swipe_engine.h)
\* ------------------------------------------------------------------------
distanceSquaredTo(p, o) ==
  LET dx == p[1] - o[1]
      dy == p[2] - o[2]
  IN  dx * dx + dy * dy

contains(r, p) ==
  /\ p[1] >= r.x
  /\ p[1] <= r.x + r.w
  /\ p[2] >= r.y
  /\ p[2] <= r.y + r.h

\* ------------------------------------------------------------------------
\* Layout: the rows a layout file describes, and the keys loadLayout
\* builds from them (key x and width in key units, row index y).
\* ------------------------------------------------------------------------
LayoutRows ==
  << [code |-> "q", x |-> 0, w |-> 1, rowY |-> 0],
     [code |-> "e", x |-> 1, w |-> 1, rowY |-> 0],
     [code |-> "o", x |-> 2, w |-> 1, rowY |-> 0],
     [code |-> "h", x |-> 0, w |-> 1, rowY |-> 1],
     [code |-> "l", x |-> 1, w |-> 1, rowY |-> 1] >>

MakeKey(d) ==
  LET bx == d.x * DEFAULT_KEY_UNIT + (IF d.x > 0 THEN d.x * DEFAULT_KEY_SPACING ELSE 0)
      by == d.rowY * (DEFAULT_KEY_HEIGHT + DEFAULT_KEY_SPACING)
      bw == d.w * DEFAULT_KEY_UNIT + (IF d.w > 1 THEN (d.w - 1) * DEFAULT_KEY_SPACING ELSE 0)
      bh == DEFAULT_KEY_HEIGHT
  IN  [id |-> d.code,
       bounds |-> [x |-> bx, y |-> by, w |-> bw, h |-> bh],
       center |-> << bx + bw \div 2, by + bh \div 2 >>]

ParsedLayout == [i \in 1..Len(LayoutRows) |-> MakeKey(LayoutRows[i])]

\* Sample points a path is drawn from: inside q, inside e (off centre),
\* inside o, inside h, inside l, the gap between q and e (nearest e, with
\* no decisive win over q), and a point farther than 100 px from every key.
PtQ == << 30, 25 >>

PtE == << 68, 25 >>

PtO == << 162, 25 >>

PtH == << 30, 81 >>

PtL == << 96, 81 >>

PtGap == << 64, 25 >>

PtFar == << 96, 190 >>

SamplePoints == { PtQ, PtE, PtO, PtH, PtL, PtGap, PtFar }

\* ------------------------------------------------------------------------
\* SwipeEngine::findBestKey
\* ------------------------------------------------------------------------
RECURSIVE FindBestKeyLoop(_, _, _, _, _)
FindBestKeyLoop(keys, pt, i, bestKey, bestDistSq) ==
  IF i > Len(keys)
  THEN IF bestDistSq > MAX_KEY_DISTANCE * MAX_KEY_DISTANCE THEN 0 ELSE bestKey
  ELSE IF contains(keys[i].bounds, pt)
       THEN i
       ELSE LET d2 == distanceSquaredTo(pt, keys[i].center)
            IN  IF d2 < bestDistSq
                THEN FindBestKeyLoop(keys, pt, i + 1, i, d2)
                ELSE FindBestKeyLoop(keys, pt, i + 1, bestKey, bestDistSq)

RECURSIVE FindBestKeyNoRejectLoop(_, _, _, _, _)
FindBestKeyNoRejectLoop(keys, pt, i, bestKey, bestDistSq) ==
  IF i > Len(keys)
  THEN bestKey
  ELSE IF contains(keys[i].bounds, pt)
       THEN i
       ELSE LET d2 == distanceSquaredTo(pt, keys[i].center)
            IN  IF d2 < bestDistSq
                THEN FindBestKeyNoRejectLoop(keys, pt, i + 1, i, d2)
                ELSE FindBestKeyNoRejectLoop(keys, pt, i + 1, bestKey, bestDistSq)

findBestKeyNoReject(keys, pt) ==
  FindBestKeyNoRejectLoop(keys, pt, 1, 0, INITIAL_BEST_DIST_SQ)

findBestKey(keys, pt) == FindBestKeyLoop(keys, pt, 1, 0, INITIAL_BEST_DIST_SQ)

\* ------------------------------------------------------------------------
\* Hysteresis conditions 1 and 2 of SwipeEngine::mapPathToSequence
\* ------------------------------------------------------------------------
StrongDistanceWin(d2_cur, d2_new) ==
  LET g == d2_cur - d2_new - DISTANCE_GAP_MIN_PX * DISTANCE_GAP_MIN_PX
  IN  /\ 10000 * d2_new < RATIO_PERCENT * RATIO_PERCENT * d2_cur
      /\ g > 0
      /\ g * g > 4 * DISTANCE_GAP_MIN_PX * DISTANCE_GAP_MIN_PX * d2_new

SEAcceptNoRect(keys, currentKey, bestKey, pt) ==
  StrongDistanceWin(distanceSquaredTo(pt, keys[currentKey].center),
                    distanceSquaredTo(pt, keys[bestKey].center))

SEAccept(keys, currentKey, bestKey, pt) ==
  \/ contains(keys[bestKey].bounds, pt)
  \/ StrongDistanceWin(distanceSquaredTo(pt, keys[currentKey].center),
                       distanceSquaredTo(pt, keys[bestKey].center))

\* One iteration of the loop over the path: st is the loop's local state
\* (currentKey, candidateKey, candidateCount, rawSequence).
SEStep(keys, st, pt) ==
  LET bestKey == findBestKey(keys, pt)
  IN  IF bestKey = 0 THEN st
      ELSE IF st.currentKey = 0
      THEN [st EXCEPT !.currentKey = bestKey,
                      !.rawSequence = Append(@, keys[bestKey].id)]
      ELSE IF bestKey # st.currentKey
      THEN LET accept1 == SEAccept(keys, st.currentKey, bestKey, pt)
               cnt == IF bestKey = st.candidateKey THEN st.candidateCount + 1 ELSE 1
               accept == \/ accept1
                         \/ /\ bestKey = st.candidateKey
                            /\ cnt >= CONSECUTIVE_SAMPLES_THRESHOLD
           IN  IF accept
               THEN [currentKey |-> bestKey, candidateKey |-> 0, candidateCount |-> 0,
                     rawSequence |-> Append(st.rawSequence, keys[bestKey].id)]
               ELSE [st EXCEPT !.candidateKey = bestKey, !.candidateCount = cnt]
      ELSE st

InitialScan == [currentKey |-> 0, candidateKey |-> 0, candidateCount |-> 0,
                rawSequence |-> << >>]

RECURSIVE SEScan(_, _, _)
SEScan(keys, path, n) ==
  IF n = 0 THEN InitialScan
  ELSE SEStep(keys, SEScan(keys, path, n - 1), path[n])

\* ------------------------------------------------------------------------
\* Phases 2-4: dwell counts, A-B-A bounce removal, re-collapse
\* ------------------------------------------------------------------------
RECURSIVE BuildDwells(_)
BuildDwells(raw) ==
  IF raw = << >> THEN << >>
  ELSE LET front == BuildDwells(SubSeq(raw, 1, Len(raw) - 1))
           s == raw[Len(raw)]
       IN  IF front = << >> \/ s # front[Len(front)][1]
           THEN Append(front, << s, 1 >>)
           ELSE [front EXCEPT ![Len(front)] = << s, front[Len(front)][2] + 1 >>]

IsBounceOrLowDwellEnd(dwells, i, minDwell) ==
  /\ i > 1
  /\ dwells[i][2] < minDwell
  /\ (i = Len(dwells) \/ dwells[i - 1][1] = dwells[i + 1][1])

IsBounce(dwells, i, minDwell) ==
  /\ i > 1
  /\ i < Len(dwells)
  /\ dwells[i - 1][1] = dwells[i + 1][1]
  /\ dwells[i][2] < minDwell

RECURSIVE RemoveBouncesFrom(_, _, _)
RemoveBouncesFrom(dwells, i, minDwell) ==
  IF i > Len(dwells) THEN << >>
  ELSE IF IsBounce(dwells, i, minDwell)
       THEN RemoveBouncesFrom(dwells, i + 1, minDwell)
       ELSE << dwells[i][1] >> \o RemoveBouncesFrom(dwells, i + 1, minDwell)

CollapseNone(filtered) == filtered

RECURSIVE Collapse(_)
Collapse(filtered) ==
  IF filtered = << >> THEN << >>
  ELSE LET front == Collapse(SubSeq(filtered, 1, Len(filtered) - 1))
           s == filtered[Len(filtered)]
       IN  IF front = << >> \/ s # front[Len(front)]
           THEN Append(front, s)
           ELSE front

PostProcess(rawSequence) ==
  Collapse(RemoveBouncesFrom(BuildDwells(rawSequence), 1, MIN_DWELL_FOR_BOUNCE))

\* ------------------------------------------------------------------------
\* SwipeEngine::mapPathToSequence
\* ------------------------------------------------------------------------
mapPathToSequence(keys, path) ==
  IF path = << >> \/ keys = << >> THEN << >>
  ELSE LET rawSequence == SEScan(keys, path, Len(path)).rawSequence
       IN  IF rawSequence = << >> THEN << >> ELSE PostProcess(rawSequence)

\* ------------------------------------------------------------------------
\* MagicKeyboardEngine: layout (loadLayout) and the inline extractor
\* (mapPathToSequence), whose candidateKey / candidateCount are function
\* statics and so outlive the call.
\* ------------------------------------------------------------------------
MKMakeKey(d) ==
  LET rx == d.x * (DEFAULT_KEY_UNIT + DEFAULT_KEY_SPACING)
      ry == d.rowY * (DEFAULT_KEY_HEIGHT + DEFAULT_KEY_SPACING)
      rw == d.w * DEFAULT_KEY_UNIT + (IF d.w > 1 THEN (d.w - 1) * DEFAULT_KEY_SPACING ELSE 0)
      rh == DEFAULT_KEY_HEIGHT
  IN  [id |-> d.code,
       r |-> [x |-> rx, y |-> ry, w |-> rw, h |-> rh],
       center |-> << rx + rw \div 2, ry + rh \div 2 >>]

MKLayout == [i \in 1..Len(LayoutRows) |-> MKMakeKey(LayoutRows[i])]

\* The search for bestKey at the head of the loop body: the first key whose
\* rectangle holds the point, else the key with the nearest centre.
RECURSIVE MKBestLoop(_, _, _, _, _)
MKBestLoop(keys, pt, i, bestKey, bestDistSq) ==
  IF i > Len(keys)
  THEN [key |-> bestKey, distSq |-> bestDistSq]
  ELSE IF contains(keys[i].r, pt)
       THEN [key |-> i, distSq |-> bestDistSq]
       ELSE LET d2 == distanceSquaredTo(keys[i].center, pt)
            IN  IF d2 < bestDistSq
                THEN MKBestLoop(keys, pt, i + 1, i, d2)
                ELSE MKBestLoop(keys, pt, i + 1, bestKey, bestDistSq)

\* One iteration of the loop over the path.  st holds the locals currentKey
\* and rawSequence and the statics candidateKey and candidateCount.
MKStep(keys, st, pt) ==
  LET best == MKBestLoop(keys, pt, 1, 0, INITIAL_BEST_DIST_SQ)
      bestKey == best.key
  IN  IF bestKey = 0 THEN st
      ELSE IF st.currentKey = 0
      THEN [st EXCEPT !.currentKey = bestKey,
                      !.rawSequence = Append(@, keys[bestKey].id)]
      ELSE IF bestKey # st.currentKey
      THEN LET accept ==
                 \/ contains(keys[bestKey].r, pt)
                 \/ StrongDistanceWin(
                      distanceSquaredTo(keys[st.currentKey].center, pt), best.distSq)
               cnt == IF bestKey = st.candidateKey THEN st.candidateCount + 1 ELSE 1
           IN  IF accept \/ cnt >= 2
               THEN [currentKey |-> bestKey, candidateKey |-> 0, candidateCount |-> 0,
                     rawSequence |-> Append(st.rawSequence, keys[bestKey].id)]
               ELSE [st EXCEPT !.candidateKey = bestKey, !.candidateCount = cnt]
      ELSE st

RECURSIVE MKScan(_, _, _, _)
MKScan(keys, path, n, statics) ==
  IF n = 0
  THEN [currentKey |-> 0, candidateKey |-> statics.candidateKey,
        candidateCount |-> statics.candidateCount, rawSequence |-> << >>]
  ELSE MKStep(keys, MKScan(keys, path, n - 1, statics), path[n])

\* The call as a whole: the returned sequence and the statics it leaves.
MKMapPathToSequence(keys, path, statics) ==
  IF path = << >> \/ keys = << >>
  THEN [seq |-> << >>, statics |-> statics]
  ELSE LET st == MKScan(keys, path, Len(path), statics)
       IN  [seq |-> IF st.rawSequence = << >> THEN << >> ELSE PostProcess(st.rawSequence),
            statics |-> [candidateKey |-> st.candidateKey,
                         candidateCount |-> st.candidateCount]]

NullStatics == [candidateKey |-> 0, candidateCount |-> 0]

\* ------------------------------------------------------------------------
\* GestureAgent::removeBouncesAndDuplicates
\* ------------------------------------------------------------------------
minDwellForBounce == 2

removeBouncesAndDuplicates(raw) ==
  IF raw = << >> THEN << >>
  ELSE Collapse(RemoveBouncesFrom(BuildDwells(raw), 1, minDwellForBounce))

\* ------------------------------------------------------------------------
\* GestureAgent (gesture_agent.h): configuration, smoothing, key mapping.
\* Positions are integer pixels; smooth() rounds its result down to a
\* whole pixel.
\* ------------------------------------------------------------------------
deadzoneRadius == 10

timeThresholdMs == 35

smoothingAlphaPercent == 40

resampleDistance == 7

hysteresisRatioPercent == 72

minDistanceGap == 6

minConsecutiveSamples == 2

GAKey(k) == [id |-> k.id, rect |-> k.bounds, center |-> k.center]

GALayout == [i \in 1..Len(ParsedLayout) |-> GAKey(ParsedLayout[i])]

\* GestureConfig with its default member initializers; smoothingAlpha is
\* held in percent.
DefaultConfig ==
  [deadzoneRadius |-> deadzoneRadius,
   timeThresholdMs |-> timeThresholdMs,
   smoothingAlphaPercent |-> smoothingAlphaPercent,
   resampleDistance |-> resampleDistance]

VARIABLE config_    \* GestureAgent::config_

smooth(raw, prev) ==
  LET a == config_.smoothingAlphaPercent
  IN  << (a * raw[1] + (100 - a) * prev[1]) \div 100,
         (a * raw[2] + (100 - a) * prev[2]) \div 100 >>

\* The test of pointerMove in TapPending, on the squared distance from the
\* pointer-down position and the time since pointer-down.
BreaksDeadzoneTimeOnly(distSq, dt) == dt > config_.timeThresholdMs

BreaksDeadzoneEither(distSq, dt) ==
  \/ distSq > config_.deadzoneRadius * config_.deadzoneRadius
  \/ dt > config_.timeThresholdMs

BreaksDeadzone(distSq, dt) ==
  /\ distSq > config_.deadzoneRadius * config_.deadzoneRadius
  /\ dt > config_.timeThresholdMs

shouldAddSampleAlways(path, candidate) == TRUE

shouldAddSample(path, candidate) ==
  IF path = << >> THEN TRUE
  ELSE distanceSquaredTo(candidate.window, path[Len(path)].window)
         >= config_.resampleDistance * config_.resampleDistance

RECURSIVE FirstContaining(_, _, _)
FirstContaining(keys, p, i) ==
  IF i > Len(keys) THEN 0
  ELSE IF contains(keys[i].rect, p) THEN i
  ELSE FirstContaining(keys, p, i + 1)

RECURSIVE NearestCenter(_, _, _, _, _)
NearestCenter(keys, p, i, best, bestDistSq) ==
  IF i > Len(keys) THEN best
  ELSE LET d2 == distanceSquaredTo(keys[i].center, p)
       IN  IF d2 < bestDistSq
           THEN NearestCenter(keys, p, i + 1, i, d2)
           ELSE NearestCenter(keys, p, i + 1, best, bestDistSq)

findNearestKey(keys, p) ==
  LET inside == FirstContaining(keys, p, 1)
  IN  IF inside # 0 THEN inside
      ELSE NearestCenter(keys, p, 1, 0, INITIAL_BEST_DIST_SQ)

shouldSwitchKey(keys, current, candidate, p) ==
  IF current = 0 \/ candidate = 0 THEN TRUE
  ELSE IF contains(keys[candidate].rect, p) THEN TRUE
  ELSE LET d2Cur == distanceSquaredTo(keys[current].center, p)
           d2Cand == distanceSquaredTo(keys[candidate].center, p)
           g == d2Cur - d2Cand - minDistanceGap * minDistanceGap
       IN  /\ 10000 * d2Cand < hysteresisRatioPercent * hysteresisRatioPercent * d2Cur
           /\ g > 0
           /\ g * g > 4 * minDistanceGap * minDistanceGap * d2Cand

GAStep(keys, st, pt) ==
  LET bestKey == findNearestKey(keys, pt)
  IN  IF bestKey = 0 THEN st
      ELSE IF st.currentKey = 0
      THEN [st EXCEPT !.currentKey = bestKey,
                      !.rawSequence = Append(@, keys[bestKey].id)]
      ELSE IF bestKey # st.currentKey
      THEN LET accept1 == shouldSwitchKey(keys, st.currentKey, bestKey, pt)
               cnt == IF bestKey = st.candidateKey THEN st.candidateCount + 1 ELSE 1
           IN  IF accept1 \/ cnt >= minConsecutiveSamples
               THEN [currentKey |-> bestKey, candidateKey |-> 0, candidateCount |-> 0,
                     rawSequence |-> Append(st.rawSequence, keys[bestKey].id)]
               ELSE [st EXCEPT !.candidateKey = bestKey, !.candidateCount = cnt]
      ELSE st

RECURSIVE GAScan(_, _, _)
GAScan(keys, path, n) ==
  IF n = 0 THEN InitialScan
  ELSE GAStep(keys, GAScan(keys, path, n - 1), path[n].layout)

mapPathToKeys(keys, path) ==
  IF path = << >> \/ keys = << >> THEN << >>
  ELSE removeBouncesAndDuplicates(GAScan(keys, path, Len(path)).rawSequence)

\* Which branch pointerUp takes in a state.
UpKindTapOnly(state) == IF state = "TapPending" THEN "tap" ELSE "none"

UpKind(state) ==
  IF state = "TapPending" THEN "tap"
  ELSE IF state = "Swiping" THEN "swipe"
  ELSE "none"

\* ------------------------------------------------------------------------
\* Characters and strings.  A char is a one-character string, a std::string
\* is a sequence of chars.  tolower and isalpha are those of the C locale.
\* ------------------------------------------------------------------------
LowerLetters == << "a", "b", "c", "d", "e", "f", "g", "h", "i", "j", "k", "l", "m",
                   "n", "o", "p", "q", "r", "s", "t", "u", "v", "w", "x", "y", "z" >>

UpperLetters == << "A", "B", "C", "D", "E", "F", "G", "H", "I", "J", "K", "L", "M",
                   "N", "O", "P", "Q", "R", "S", "T", "U", "V", "W", "X", "Y", "Z" >>

isalpha(c) == \E i \in 1..26 : LowerLetters[i] = c \/ UpperLetters[i] = c

tolower(c) ==
  IF \E i \in 1..26 : UpperLetters[i] = c
  THEN LowerLetters[CHOOSE i \in 1..26 : UpperLetters[i] = c]
  ELSE c

\* c - 'a'.  Callers only test the difference against the range 0..25, so
\* every char that is not a lowercase letter is given the value -1.
CharMinusA(c) ==
  IF \E i \in 1..26 : LowerLetters[i] = c
  THEN (CHOOSE i \in 1..26 : LowerLetters[i] = c) - 1
  ELSE -1

Abs(x) == IF x < 0 THEN 0 - x ELSE x

Min2(x, y) == IF x < y THEN x ELSE y

\* ------------------------------------------------------------------------
\* levenshtein(s1, s2, limit): two-row dynamic programme with early exit.
\* A row is the sequence of its cells 0..m, cell j at position j+1.
\* caseFold is TRUE for SwipeEngine (costs compare tolower of both chars)
\* and FALSE for MagicKeyboardEngine (costs compare the chars themselves).
\* ------------------------------------------------------------------------
LevCost(caseFold, a, b) ==
  IF caseFold
  THEN (IF tolower(a) = tolower(b) THEN 0 ELSE 1)
  ELSE (IF a = b THEN 0 ELSE 1)

\* The inner loop over j: curr holds the cells 0..j-1 computed so far.
RECURSIVE LevRow(_, _, _, _, _, _)
LevRow(caseFold, s1, s2, i, prev, curr) ==
  LET j == Len(curr)
  IN  IF j > Len(s2)
      THEN curr
      ELSE LET cost == LevCost(caseFold, s1[i], s2[j])
               v    == Min2(Min2(curr[j] + 1, prev[j + 1] + 1), prev[j] + cost)
           IN  LevRow(caseFold, s1, s2, i, prev, Append(curr, v))

RECURSIVE SeqMin(_)
SeqMin(row) ==
  IF Len(row) = 1 THEN row[1] ELSE Min2(row[1], SeqMin(Tail(row)))

\* The outer loop over i, from row i on, with prev the row before it.
RECURSIVE LevRows(_, _, _, _, _, _)
LevRows(caseFold, s1, s2, limit, i, prev) ==
  IF i > Len(s1)
  THEN prev[Len(s2) + 1]
  ELSE LET curr == LevRow(caseFold, s1, s2, i, prev, << i >>)
       IN  IF SeqMin(curr) > limit
           THEN limit + 1
           ELSE LevRows(caseFold, s1, s2, limit, i + 1, curr)

LevenshteinOf(caseFold, s1, s2, limit) ==
  IF Abs(Len(s1) - Len(s2)) > limit
  THEN limit + 1
  ELSE LevRows(caseFold, s1, s2, limit, 1, [j \in 1..(Len(s2) + 1) |-> j - 1])

\* SwipeEngine::levenshtein
levenshtein(s1, s2, limit) == LevenshteinOf(TRUE, s1, s2, limit)

\* MagicKeyboardEngine::levenshtein
MKlevenshtein(s1, s2, limit) == LevenshteinOf(FALSE, s1, s2, limit)

\* ------------------------------------------------------------------------
\* Dictionary files.  A file is a record: open says whether an ifstream on
\* its path opens, lines are the lines std::getline yields.  A line of a
\* words file is a string; a line of a frequency file that holds a tab is
\* the pair << word, value >> of the text before the tab and the uint32_t
\* the text after it is stored as.
\* A uint32_t is held as the 32-bit integer with the same bits, so that
\* 4294967295 is -1 and adding 1 to it gives 0 as the hardware does.
\* ------------------------------------------------------------------------
UINT32_MAX == 0 - 1

MissingFile == [open |-> FALSE, lines |-> << >>]

\* freqs[line] after the frequency file has been read: a later line for the
\* same word overwrites an earlier one; dflt when the word has none.
FreqOf(freqLines, word, dflt) ==
  LET hits == { i \in 1..Len(freqLines) : freqLines[i][1] = word }
  IN  IF hits = {} THEN dflt
      ELSE freqLines[CHOOSE i \in hits : \A j \in hits : j <= i][2]

EmptyBuckets == [p \in {} |-> << >>]

\* buckets_[f][l].  The model keeps the buckets that hold an index; every
\* other bucket of the 26 x 26 array is empty.
BucketAt(buckets, f, l) ==
  IF << f, l >> \in DOMAIN buckets THEN buckets[<< f, l >>] ELSE << >>

\* buckets_[f][l].push_back(idx)
BucketPush(buckets, f, l, idx) ==
  [p \in DOMAIN buckets \cup { << f, l >> } |->
     IF p = << f, l >> THEN Append(BucketAt(buckets, f, l), idx) ELSE buckets[p]]

EmptyDictionary == [dictionary |-> << >>, buckets |-> EmptyBuckets]

\* DictWord for a line, as both loaders fill it.
MakeDictWord(line, freq) ==
  [word  |-> line,
   freq  |-> freq,
   len   |-> Len(line),
   first |-> tolower(line[1]),
   last  |-> tolower(line[Len(line)])]

AddWordUnindexed(acc, dw) ==
  [dictionary |-> Append(acc.dictionary, dw), buckets |-> acc.buckets]

\* push_back(dw) and the indexing by first and last character.  Indices
\* are those of the std::vector: the first word has index 0.
AddWord(acc, dw) ==
  LET dict == Append(acc.dictionary, dw)
      fidx == CharMinusA(dw.first)
      lidx == CharMinusA(dw.last)
  IN  [dictionary |-> dict,
       buckets |-> IF fidx >= 0 /\ fidx < 26 /\ lidx >= 0 /\ lidx < 26
                   THEN BucketPush(acc.buckets, fidx, lidx, Len(dict) - 1)
                   ELSE acc.buckets]

AllAlpha(line) == \A i \in 1..Len(line) : isalpha(line[i])

\* The loop over the lines of the words file.  alphaOnly: lines with a
\* non-alphabetic char are skipped (SwipeEngine) or kept
\* (MagicKeyboardEngine); defaultFreq is 1000 or 0.
RECURSIVE LoadWords(_, _, _, _, _)
LoadWords(lines, freqLines, alphaOnly, defaultFreq, acc) ==
  IF lines = << >>
  THEN acc
  ELSE LET line == Head(lines)
       IN  IF line = << >> \/ (alphaOnly /\ ~AllAlpha(line))
           THEN LoadWords(Tail(lines), freqLines, alphaOnly, defaultFreq, acc)
           ELSE LoadWords(Tail(lines), freqLines, alphaOnly, defaultFreq,
                          AddWord(acc, MakeDictWord(line, FreqOf(freqLines, line, defaultFreq))))

SE_DEFAULT_FREQ == 1000

MK_DEFAULT_FREQ == 0

\* What SwipeEngine::loadDictionary leaves in dictionary_ and buckets_:
\* both are cleared before the words file is opened.
SELoadDictionary(words, freqs) ==
  IF ~words.open
  THEN EmptyDictionary
  ELSE LoadWords(words.lines, freqs.lines, TRUE, SE_DEFAULT_FREQ, EmptyDictionary)

\* ------------------------------------------------------------------------
\* getShortlist (the same in SwipeEngine and MagicKeyboardEngine)
\* ------------------------------------------------------------------------
LENGTH_TOLERANCE == 3

RECURSIVE FilterByLength(_, _, _)
FilterByLength(dictionary, bucket, targetLen) ==
  IF bucket = << >>
  THEN << >>
  ELSE LET idx  == Head(bucket)
           rest == FilterByLength(dictionary, Tail(bucket), targetLen)
       IN  IF Abs(dictionary[idx + 1].len - targetLen) <= LENGTH_TOLERANCE
           THEN << idx >> \o rest
           ELSE rest

getShortlistAnyLength(dictionary, buckets, keys) ==
  IF keys = << >>
  THEN << >>
  ELSE LET fidx == CharMinusA(tolower(keys[1]))
           lidx == CharMinusA(tolower(keys[Len(keys)]))
       IN  IF fidx < 0 \/ fidx >= 26 \/ lidx < 0 \/ lidx >= 26
           THEN << >>
           ELSE BucketAt(buckets, fidx, lidx)

getShortlist(dictionary, buckets, keys) ==
  IF keys = << >>
  THEN << >>
  ELSE LET fidx == CharMinusA(tolower(keys[1]))
           lidx == CharMinusA(tolower(keys[Len(keys)]))
       IN  IF fidx < 0 \/ fidx >= 26 \/ lidx < 0 \/ lidx >= 26
           THEN << >>
           ELSE FilterByLength(dictionary, BucketAt(buckets, fidx, lidx), Len(keys))

\* ------------------------------------------------------------------------
\* SwipeEngine: scoring.  Scores are fixed-point numbers in thousandths;
\* distances between key centres are in hundredths of a pixel.
\* ------------------------------------------------------------------------
\* The set getBigrams(s) builds: one number a*26 + b for every adjacent
\* pair of alphabetic chars.
getBigrams(s) ==
  { CharMinusA(tolower(s[i])) * 26 + CharMinusA(tolower(s[i + 1])) :
      i \in { k \in 1..(Len(s) - 1) : isalpha(s[k]) /\ isalpha(s[k + 1]) } }

countBigramOverlap(keys, word) ==
  Cardinality(getBigrams(keys) \cap getBigrams(word))

\* SwipeEngine::findKeyById: the index keyIndex_ holds for id, 0 for nullptr.
findKeyById(keys, id) ==
  LET hits == { i \in 1..Len(keys) : keys[i].id = id }
  IN  IF hits = {} THEN 0 ELSE CHOOSE i \in hits : \A j \in hits : j <= i

\* The largest r with r * r <= n, sought between lo and hi.
RECURSIVE ISqrtBetween(_, _, _)
ISqrtBetween(n, lo, hi) ==
  IF lo >= hi
  THEN lo
  ELSE LET mid == (lo + hi + 1) \div 2
       IN  IF mid * mid <= n
           THEN ISqrtBetween(n, mid, hi)
           ELSE ISqrtBetween(n, lo, mid - 1)

\* Point::distanceTo in hundredths of a pixel, rounded down.
DistanceCenti(p, o) == ISqrtBetween(distanceSquaredTo(p, o) * 10000, 0, 40000)

SPATIAL_NORM_DISTANCE == 60

\* The alignment loop of computeSpatialScore from (keyIdx, wordIdx) on
\* (0-based as in the code); the result is << totalDist, pairs >>.
RECURSIVE SpatialLoop(_, _, _, _, _, _, _)
SpatialLoop(layout, keys, word, keyIdx, wordIdx, totalDist, pairs) ==
  IF ~(keyIdx < Len(keys) /\ wordIdx < Len(word))
  THEN << totalDist, pairs >>
  ELSE LET keyKey  == findKeyById(layout, tolower(keys[keyIdx + 1]))
           wordKey == findKeyById(layout, tolower(word[wordIdx + 1]))
           found   == keyKey # 0 /\ wordKey # 0
           total1  == IF found
                      THEN totalDist + DistanceCenti(layout[keyKey].center, layout[wordKey].center)
                      ELSE totalDist
           pairs1  == IF found THEN pairs + 1 ELSE pairs
           keysRemaining == Len(keys) - keyIdx
           wordRemaining == Len(word) - wordIdx
       IN  IF keysRemaining > wordRemaining
           THEN SpatialLoop(layout, keys, word, keyIdx + 1, wordIdx, total1, pairs1)
           ELSE IF wordRemaining > keysRemaining
                THEN SpatialLoop(layout, keys, word, keyIdx, wordIdx + 1, total1, pairs1)
                ELSE SpatialLoop(layout, keys, word, keyIdx + 1, wordIdx + 1, total1, pairs1)

\* max(-1.0, 1.0 - avgDist / 60.0) in thousandths.
computeSpatialScore(layout, keys, word) ==
  LET r == SpatialLoop(layout, keys, word, 0, 0, 0, 0)
  IN  IF r[2] = 0
      THEN 0
      ELSE LET s == 1000 - (r[1] * 10) \div (r[2] * SPATIAL_NORM_DISTANCE)
           IN  IF s < 0 - 1000 THEN 0 - 1000 ELSE s

\* A score no finite score reaches: what the double +infinity compares as.
Infinity == 1000000000

\* log1p(1000.0 / (freq + 1)) in thousandths, for the frequency values the
\* model's files hold.  freq + 1 is computed in 32 bits: it is 0 for
\* 4294967295, the quotient is then +infinity and so is the logarithm.
SEFreqScore(freq) ==
  CASE freq + 1 = 0    -> Infinity
    [] freq = 1        -> 6216
    [] freq = 2        -> 5812
    [] freq = 3        -> 5525
    [] freq = 10       -> 4520
    [] freq = 1000     -> 692

EDIT_DISTANCE_LIMIT == 7

W_EDIT_DISTANCE == 0 - 2200

W_BIGRAM_OVERLAP == 1000

W_FREQUENCY == 800

W_SPATIAL == 1500

scoreCandidate(layout, keys, dw) ==
  LET editDist      == levenshtein(keys, dw.word, EDIT_DISTANCE_LIMIT)
      bigramOverlap == countBigramOverlap(keys, dw.word)
      freqScore     == SEFreqScore(dw.freq)
      spatialScore  == computeSpatialScore(layout, keys, dw.word)
  IN  IF freqScore = Infinity
      THEN Infinity
      ELSE W_EDIT_DISTANCE * editDist + W_BIGRAM_OVERLAP * bigramOverlap
           + (W_FREQUENCY * freqScore) \div 1000 + (W_SPATIAL * spatialScore) \div 1000

\* ------------------------------------------------------------------------
\* std::sort with the comparator a.score > b.score.  The order it leaves
\* between elements of equal score is unspecified: SortOutcomes is the set
\* of arrangements of cands the call may leave.  Pos is the set of
\* positions of cands still to be placed.
\* ------------------------------------------------------------------------
RECURSIVE SortOutcomesOf(_, _)
SortOutcomesOf(cands, Pos) ==
  IF Pos = {}
  THEN { << >> }
  ELSE LET top == { i \in Pos : \A j \in Pos : cands[i].score >= cands[j].score }
       IN  UNION { { << cands[i] >> \o rest : rest \in SortOutcomesOf(cands, Pos \ {i}) } :
                   i \in top }

SortOutcomes(cands) == SortOutcomesOf(cands, 1..Len(cands))

TruncateNever(s, n) == s

\* resize(n) when the vector is longer than n.
Truncate(s, n) == IF Len(s) > n THEN SubSeq(s, 1, n) ELSE s

\* ------------------------------------------------------------------------
\* SwipeEngine::generateCandidates
\* ------------------------------------------------------------------------
MIN_CANDIDATE_SCORE == 0 - 5000

MAX_CANDIDATES == 8

MIN_KEY_SEQUENCE_LENGTH == 2

\* The loop over the shortlist.  A candidate also records idx, the
\* dictionary index it was made from (not a member of the C++ struct).
RECURSIVE ScoreShortlist(_, _, _, _)
ScoreShortlist(layout, dictionary, keySequence, shortlist) ==
  IF shortlist = << >>
  THEN << >>
  ELSE LET idx   == Head(shortlist)
           dw    == dictionary[idx + 1]
           score == scoreCandidate(layout, keySequence, dw)
           rest  == ScoreShortlist(layout, dictionary, keySequence, Tail(shortlist))
       IN  IF score >= MIN_CANDIDATE_SCORE
           THEN << [word |-> dw.word, score |-> score,
                    editDistance |-> levenshtein(keySequence, dw.word, EDIT_DISTANCE_LIMIT),
                    bigramOverlap |-> countBigramOverlap(keySequence, dw.word),
                    idx |-> idx] >> \o rest
           ELSE rest

\* The set of vectors the call may return.
generateCandidates(layout, dictionary, buckets, keySequence) ==
  IF Len(keySequence) < MIN_KEY_SEQUENCE_LENGTH
  THEN { << >> }
  ELSE LET shortlist  == getShortlist(dictionary, buckets, keySequence)
           candidates == ScoreShortlist(layout, dictionary, keySequence, shortlist)
       IN  { Truncate(sorted, MAX_CANDIDATES) : sorted \in SortOutcomes(candidates) }

\* ------------------------------------------------------------------------
\* MagicKeyboardEngine: dictionary, scoring, generateCandidates
\* ------------------------------------------------------------------------
\* What MagicKeyboardEngine::loadDictionary leaves in dictionary_ and
\* buckets_.  found: one of the search paths holds a words.txt that opens.
MKLoadDictionary(words, freqs) ==
  IF ~words.open
  THEN EmptyDictionary
  ELSE LoadWords(words.lines, freqs.lines, FALSE, MK_DEFAULT_FREQ, EmptyDictionary)

\* The vector the lambda getBigrams builds, in order, repeats included.
RECURSIVE MKgetBigrams(_, _)
MKgetBigrams(s, i) ==
  IF i + 1 > Len(s)
  THEN << >>
  ELSE IF isalpha(s[i]) /\ isalpha(s[i + 1])
       THEN << CharMinusA(tolower(s[i])) * 26 + CharMinusA(tolower(s[i + 1])) >>
            \o MKgetBigrams(s, i + 1)
       ELSE MKgetBigrams(s, i + 1)

\* log1p(dw.freq) in thousandths, for the frequency values the model's
\* files hold; the uint32_t is converted to double, so 4294967295 stays
\* that large.
MKFreqScore(freq) ==
  CASE freq = UINT32_MAX -> 22180
    [] freq = 0          -> 0
    [] freq = 1          -> 693
    [] freq = 2          -> 1098
    [] freq = 3          -> 1386
    [] freq = 10         -> 2397
    [] freq = 1000       -> 6908

MKscoreCandidate(keys, dw) ==
  LET dist     == MKlevenshtein(keys, dw.word, EDIT_DISTANCE_LIMIT)
      b1       == MKgetBigrams(keys, 1)
      b2       == MKgetBigrams(dw.word, 1)
      overlaps == Cardinality({ i \in 1..Len(b1) : \E j \in 1..Len(b2) : b1[i] = b2[j] })
  IN  W_EDIT_DISTANCE * dist + W_BIGRAM_OVERLAP * overlaps
      + (W_FREQUENCY * MKFreqScore(dw.freq)) \div 1000

RECURSIVE MKScoreShortlist(_, _, _)
MKScoreShortlist(dictionary, keys, shortlist) ==
  IF shortlist = << >>
  THEN << >>
  ELSE LET idx == Head(shortlist)
           dw  == dictionary[idx + 1]
       IN  << [word |-> dw.word, score |-> MKscoreCandidate(keys, dw), idx |-> idx] >>
           \o MKScoreShortlist(dictionary, keys, Tail(shortlist))

\* The set of vectors MagicKeyboardEngine::generateCandidates may return
\* (and store in currentCandidates_).
MKgenerateCandidates(dictionary, buckets, keys) ==
  LET shortlist  == getShortlist(dictionary, buckets, keys)
      candidates == MKScoreShortlist(dictionary, keys, shortlist)
  IN  { Truncate(sorted, MAX_CANDIDATES) : sorted \in SortOutcomes(candidates) }

\* ------------------------------------------------------------------------
\* Shark2Engine (shark2.cpp).  Key centres are whole pixels for the layout
\* initializeKeyboard builds, so the comparisons of distances are made on
\* squared distances.
\* ------------------------------------------------------------------------
SK_KEY_W == 52

SK_KEY_H == 42

SK_SPACING == 6

SK_WINDOW_W == 720

SkRow0 == << "q", "w", "e", "r", "t", "y", "u", "i", "o", "p" >>

SkRow1 == << "a", "s", "d", "f", "g", "h", "j", "k", "l" >>

SkRow2 == << "z", "x", "c", "v", "b", "n", "m" >>

\* Shark2Engine::initializeKeyboard: the centre of every letter key.
initializeKeyboard ==
  LET keyPitch     == SK_KEY_W + SK_SPACING
      rowSpacing   == SK_KEY_H + SK_SPACING
      wide         == (3 * SK_KEY_W) \div 2
      row0_startX  == (SK_WINDOW_W - (10 * keyPitch + wide)) \div 2
      row1_startX  == (SK_WINDOW_W - (9 * keyPitch + wide)) \div 2
      row2_startX  == (SK_WINDOW_W - (wide + 7 * keyPitch + 2 * keyPitch)) \div 2
      row2_letters == row2_startX + wide + SK_SPACING
      Centre(c) ==
        IF \E i \in 1..10 : SkRow0[i] = c
        THEN << row0_startX + ((CHOOSE i \in 1..10 : SkRow0[i] = c) - 1) * keyPitch + SK_KEY_W \div 2,
                SK_KEY_H \div 2 >>
        ELSE IF \E i \in 1..9 : SkRow1[i] = c
        THEN << row1_startX + ((CHOOSE i \in 1..9 : SkRow1[i] = c) - 1) * keyPitch + SK_KEY_W \div 2,
                rowSpacing + SK_KEY_H \div 2 >>
        ELSE << row2_letters + ((CHOOSE i \in 1..7 : SkRow2[i] = c) - 1) * keyPitch + SK_KEY_W \div 2,
                2 * rowSpacing + SK_KEY_H \div 2 >>
  IN  [c \in { LowerLetters[i] : i \in 1..26 } |-> Centre(c)]

VARIABLE keyCenters_    \* Shark2Engine::keyCenters_

getKeyCenter(c) ==
  IF tolower(c) \in DOMAIN keyCenters_ THEN keyCenters_[tolower(c)] ELSE << 0, 0 >>

\* The trimming of a line: trailing blanks, then leading blanks.
RECURSIVE TrimBack(_)
TrimBack(line) ==
  IF line # << >> /\ line[Len(line)] \in { " ", "\t", "\r", "\n" }
  THEN TrimBack(SubSeq(line, 1, Len(line) - 1))
  ELSE line

RECURSIVE TrimFront(_)
TrimFront(line) ==
  IF line # << >> /\ line[1] \in { " ", "\t" }
  THEN TrimFront(Tail(line))
  ELSE line

ToLowerString(s) == [i \in 1..Len(s) |-> tolower(s[i])]

\* A key centre of (0,0) stands for "no such key".
ValidKey(p) == p[1] # 0 \/ p[2] # 0

\* Shark2Engine::generateTemplate.  The raw points are the key centres of
\* the word's letters, those without a valid key left out; the sampled
\* points and the normalised shape are computed from the raw points alone
\* and are empty exactly when the raw points are, so the template keeps
\* the raw points only.  startPoint and endPoint stay (0,0) when there is
\* no raw point.
generateTemplate(word, freq) ==
  LET centres   == [i \in 1..Len(word) |-> getKeyCenter(word[i])]
      rawPoints == SelectSeq(centres, ValidKey)
  IN  [word          |-> word,
       frequencyRank |-> freq,
       firstChar     |-> word[1],
       lastChar      |-> word[Len(word)],
       rawPoints     |-> rawPoints,
       startPoint    |-> IF rawPoints = << >> THEN << 0, 0 >> ELSE rawPoints[1],
       endPoint      |-> IF rawPoints = << >> THEN << 0, 0 >> ELSE rawPoints[Len(rawPoints)]]

\* push_back of the template and the indexing by first and last letter.
SkAddTemplate(acc, tmpl) ==
  LET templates == Append(acc.templates, tmpl)
      fi == CharMinusA(tmpl.word[1])
      li == CharMinusA(tmpl.word[Len(tmpl.word)])
  IN  [templates |-> templates,
       buckets |-> IF fi >= 0 /\ fi < 26 /\ li >= 0 /\ li < 26
                   THEN BucketPush(acc.buckets, fi, li, Len(templates) - 1)
                   ELSE acc.buckets]

NoTemplates == [templates |-> << >>, buckets |-> EmptyBuckets]

\* The loop of Shark2Engine::loadDictionary(path) over the lines, rank being
\* the rank of the next line.
RECURSIVE SkLoadLines(_, _, _)
SkLoadLines(lines, rank, acc) ==
  IF lines = << >>
  THEN acc
  ELSE LET line == TrimFront(TrimBack(Head(lines)))
       IN  IF line = << >>
           THEN SkLoadLines(Tail(lines), rank, acc)
           ELSE IF ~AllAlpha(line) \/ Len(line) < 2
                THEN SkLoadLines(Tail(lines), rank + 1, acc)
                ELSE SkLoadLines(Tail(lines), rank + 1,
                                 SkAddTemplate(acc, generateTemplate(ToLowerString(line), rank)))

\* The loop of Shark2Engine::loadDictionaryWithFrequency over the pairs.
RECURSIVE SkLoadPairs(_, _)
SkLoadPairs(words, acc) ==
  IF words = << >>
  THEN acc
  ELSE LET word == Head(words)[1]
           freq == Head(words)[2]
       IN  IF Len(word) < 2 \/ ~AllAlpha(word)
           THEN SkLoadPairs(Tail(words), acc)
           ELSE SkLoadPairs(Tail(words),
                            SkAddTemplate(acc, generateTemplate(ToLowerString(word), freq)))

\* ------------------------------------------------------------------------
\* Shark2Engine::pruneByStartEnd and Shark2Engine::recognize
\* ------------------------------------------------------------------------
PRUNING_RADIUS == 40

SK_LENGTH_TOLERANCE == 3

QUICK_ACCEPT_DISTANCE == 60

\* The QWERTY adjacency map of pruneByStartEnd.
neighbors ==
  [c \in DOMAIN initializeKeyboard |->
     CASE c = "q" -> { "w", "a" }
       [] c = "w" -> { "q", "a", "s", "e" }
       [] c = "e" -> { "w", "s", "d", "r" }
       [] c = "r" -> { "e", "d", "f", "t" }
       [] c = "t" -> { "r", "f", "g", "y" }
       [] c = "y" -> { "t", "g", "h", "u" }
       [] c = "u" -> { "y", "h", "j", "i" }
       [] c = "i" -> { "u", "j", "k", "o" }
       [] c = "o" -> { "i", "k", "l", "p" }
       [] c = "p" -> { "o", "l" }
       [] c = "a" -> { "q", "w", "s", "z" }
       [] c = "s" -> { "a", "w", "e", "d", "x", "z" }
       [] c = "d" -> { "s", "e", "r", "f", "c", "x" }
       [] c = "f" -> { "d", "r", "t", "g", "v", "c" }
       [] c = "g" -> { "f", "t", "y", "h", "b", "v" }
       [] c = "h" -> { "g", "y", "u", "j", "n", "b" }
       [] c = "j" -> { "h", "u", "i", "k", "m", "n" }
       [] c = "k" -> { "j", "i", "o", "l", "m" }
       [] c = "l" -> { "k", "o", "p" }
       [] c = "z" -> { "a", "s", "x" }
       [] c = "x" -> { "z", "s", "d", "c" }
       [] c = "c" -> { "x", "d", "f", "v" }
       [] c = "v" -> { "c", "f", "g", "b" }
       [] c = "b" -> { "v", "g", "h", "n" }
       [] c = "n" -> { "b", "h", "j", "m" }
       [] c = "m" -> { "n", "j", "k" }]

\* The keys the loop over keyCenters_ may leave in closestStart (or
\* closestEnd): a key at the least distance; which one of several depends
\* on the iteration order of the unordered_map.
NearestKeys(p) ==
  { c \in DOMAIN keyCenters_ :
      \A d \in DOMAIN keyCenters_ :
        distanceSquaredTo(p, keyCenters_[c]) <= distanceSquaredTo(p, keyCenters_[d]) }

\* startKeys (or endKeys) after the expansion by neighbours.
ExpandedKeys(p, closest) ==
  LET near == { c \in DOMAIN keyCenters_ :
                  distanceSquaredTo(p, keyCenters_[c]) <= PRUNING_RADIUS * PRUNING_RADIUS }
      keys == IF near = {} THEN { closest } ELSE near
  IN  keys \cup UNION { neighbors[c] : c \in keys \cap DOMAIN neighbors }

RECURSIVE AscendingSeq(_)
AscendingSeq(S) ==
  IF S = {}
  THEN << >>
  ELSE LET least == CHOOSE x \in S : \A y \in S : x <= y
       IN  << least >> \o AscendingSeq(S \ { least })

\* The template indices pruneByStartEnd collects, each once.  The order in
\* which the code meets them follows the iteration order of keyCenters_;
\* they are listed here by ascending index.
pruneByStartEnd(templates, buckets, start, end, inputLen, closestStart, closestEnd) ==
  LET startKeys == ExpandedKeys(start, closestStart)
      endKeys   == ExpandedKeys(end, closestEnd)
      InBucket(idx) ==
        \E sc \in startKeys, ec \in endKeys :
          \E n \in 1..Len(BucketAt(buckets, CharMinusA(sc), CharMinusA(ec))) :
            BucketAt(buckets, CharMinusA(sc), CharMinusA(ec))[n] = idx
  IN  AscendingSeq({ idx \in 0..(Len(templates) - 1) :
                       /\ InBucket(idx)
                       /\ Abs(Len(templates[idx + 1].word) - inputLen) <= SK_LENGTH_TOLERANCE })

\* The words of the common-word fast path, in the order of the table.
commonWords ==
  << << "t", "h", "e" >>, << "b", "e" >>, << "t", "o" >>, << "o", "f" >>,
     << "a", "n", "d" >>, << "a" >>, << "i", "n" >>, << "t", "h", "a", "t" >>,
     << "h", "a", "v", "e" >>, << "i" >>, << "i", "t" >>, << "f", "o", "r" >>,
     << "n", "o", "t" >>, << "o", "n" >>, << "w", "i", "t", "h" >>, << "h", "e" >>,
     << "a", "s" >>, << "y", "o", "u" >>, << "d", "o" >>, << "a", "t" >>,
     << "t", "h", "i", "s" >>, << "b", "u", "t" >>, << "h", "i", "s" >>, << "b", "y" >>,
     << "f", "r", "o", "m" >>, << "t", "h", "e", "y" >>, << "w", "e" >>,
     << "s", "a", "y" >>, << "h", "e", "r" >>, << "s", "h", "e" >>, << "o", "r" >>,
     << "a", "n" >>, << "w", "i", "l", "l" >>, << "m", "y" >>, << "o", "n", "e" >>,
     << "a", "l", "l" >>, << "w", "o", "u", "l", "d" >>,
     << "t", "h", "e", "r", "e" >>, << "t", "h", "e", "i", "r" >> >>

\* The words of quickMatches, in order.
RECURSIVE QuickMatchWords(_, _, _)
QuickMatchWords(start, end, n) ==
  IF n > Len(commonWords)
  THEN << >>
  ELSE LET word == commonWords[n]
           rest == QuickMatchWords(start, end, n + 1)
       IN  IF /\ Len(word) >= 2
              /\ distanceSquaredTo(start, getKeyCenter(word[1]))
                   < QUICK_ACCEPT_DISTANCE * QUICK_ACCEPT_DISTANCE
              /\ distanceSquaredTo(end, getKeyCenter(word[Len(word)]))
                   < QUICK_ACCEPT_DISTANCE * QUICK_ACCEPT_DISTANCE
           THEN << word >> \o rest
           ELSE rest

\* The values a score may take.  A score is a sum of real-valued terms
\* computed from 100 resampled points; the model keeps only its rank
\* among the scores of the call, any rank being possible.
ScoreLevels == 1..MaxScoreLevel

\* The ways of giving every word of a list a score.
Scored(words) ==
  { [i \in 1..Len(words) |-> [word |-> words[i], score |-> f[i]]] :
      f \in [1..Len(words) -> ScoreLevels] }

\* The merge of one quick match into results: the first result of the same
\* word keeps the better score, else the quick match is appended.
MergeQuickMatch(results, qm) ==
  LET same == { i \in 1..Len(results) : results[i].word = qm.word }
  IN  IF same = {}
      THEN Append(results, qm)
      ELSE LET first == CHOOSE i \in same : \A j \in same : i <= j
           IN  [results EXCEPT ![first].score =
                  IF qm.score > @ THEN qm.score ELSE @]

RECURSIVE MergeQuickMatches(_, _)
MergeQuickMatches(results, quickMatches) ==
  IF quickMatches = << >>
  THEN results
  ELSE MergeQuickMatches(MergeQuickMatch(results, Head(quickMatches)), Tail(quickMatches))

\* resize(maxCandidates) when results.size() > static_cast<size_t>(maxCandidates);
\* the cast makes a negative maxCandidates larger than any size.
SkTruncate(results, maxCandidates) ==
  IF maxCandidates < 0 THEN results ELSE Truncate(results, maxCandidates)

\* estimatedLen: the input word length estimated from the gesture, and its
\* value for the second pruning pass.
EstimatedLen(inputPoints) ==
  IF inputPoints.size \div 10 > 2 THEN inputPoints.size \div 10 ELSE 2

ExpandedLen(estimatedLen) == IF estimatedLen - 1 > 2 THEN estimatedLen - 1 ELSE 2

\* The set of vectors Shark2Engine::recognize may return.  inputPoints is
\* the record of the vector's size, front and back: no other point of it
\* is read but for the scores.
RecognizeLoaded(templates, buckets, inputPoints, maxCandidates) ==
  LET start == inputPoints.front
      end   == inputPoints.back
      quickWords == QuickMatchWords(start, end, 1)
      estimatedLen == EstimatedLen(inputPoints)
      estimatedLen2 == ExpandedLen(estimatedLen)
      Indices(cs, ce) ==
        LET first == pruneByStartEnd(templates, buckets, start, end, estimatedLen, cs, ce)
        IN  IF Len(first) < 10
            THEN pruneByStartEnd(templates, buckets, start, end, estimatedLen2, cs, ce)
            ELSE first
      HasShape(idx) == templates[idx + 1].rawPoints # << >>
      Words(idxs) == LET shaped == SelectSeq(idxs, HasShape)
                     IN  [i \in 1..Len(shaped) |-> templates[shaped[i] + 1].word]
  IN  UNION { UNION { UNION { { SkTruncate(sorted, maxCandidates) :
                                  sorted \in SortOutcomes(MergeQuickMatches(results, quickMatches)) } :
                              quickMatches \in Scored(quickWords) } :
                      results \in Scored(Words(Indices(cs, ce))) } :
              cs \in NearestKeys(start), ce \in NearestKeys(end) }

recognizeUnguarded(templates, buckets, inputPoints, maxCandidates) ==
  RecognizeLoaded(templates, buckets, inputPoints, maxCandidates)

recognize(templates, buckets, inputPoints, maxCandidates) ==
  IF inputPoints.size < 2 \/ templates = << >>
  THEN { << >> }
  ELSE RecognizeLoaded(templates, buckets, inputPoints, maxCandidates)

\* ------------------------------------------------------------------------
\* UserDataManager (user_data.cpp): the learned-data file and the boosts.
\* A map from words (or bigram keys) to counts is a function on the keys
\* it holds.  The file learned.dat is the record of what a reader finds in
\* it: magic is the first four bytes ("" when the file is shorter), version
\* and the two counts are -1 when the file ends before them, and unigrams
\* and bigrams are the entries that are complete in the file, in file order.
\* ------------------------------------------------------------------------
MAX_UNIGRAMS == 10000

MAX_BIGRAMS == 5000

UNIGRAM_WEIGHT_TENTHS == 25

BIGRAM_WEIGHT_TENTHS == 18

AUTO_SAVE_INTERVAL == 10

DECAY_FACTOR_PERCENT == 95

NoCounts == [k \in {} |-> 0]

CountOf(map, key) == IF key \in DOMAIN map THEN map[key] ELSE 0

PutCount(map, key, freq) ==
  [k \in DOMAIN map \cup { key } |-> IF k = key THEN freq ELSE map[k]]

\* The loops of load over the entries of one section: at most count
\* entries are read, and an entry is stored only if it was read whole.
\* Where the same key comes twice the later entry wins; the entries lo..hi
\* are read by halves so that a file of thousands of entries can be read.
Overwritten(map, later) ==
  [k \in DOMAIN map \cup DOMAIN later |->
     IF k \in DOMAIN later THEN later[k] ELSE map[k]]

RECURSIVE ReadRange(_, _, _)
ReadRange(entries, lo, hi) ==
  IF lo > hi
  THEN NoCounts
  ELSE IF lo = hi
       THEN [k \in { entries[lo][1] } |-> entries[lo][2]]
       ELSE LET mid == (lo + hi) \div 2
            IN  Overwritten(ReadRange(entries, lo, mid), ReadRange(entries, mid + 1, hi))

ReadEntries(entries, count, map) ==
  Overwritten(map, ReadRange(entries, 1,
                             IF count < Len(entries) THEN count ELSE Len(entries)))

\* UserDataManager::applyDecay: every count is multiplied by 0.95 and cut
\* to an integer, 0 becomes 1, and the entries of count 1 or less go.
Decayed(freq) ==
  LET d == (freq * DECAY_FACTOR_PERCENT) \div 100 IN IF d = 0 THEN 1 ELSE d

applyDecay(map) ==
  [k \in { k \in DOMAIN map : Decayed(map[k]) > 1 } |-> Decayed(map[k])]

\* The file lacks something load reads: it is shorter than its header or
\* than the entries its counts announce.
IsTruncated(file) ==
  \/ file.magic = ""
  \/ file.version = 0 - 1
  \/ file.unigramCount = 0 - 1
  \/ Len(file.unigrams) < file.unigramCount
  \/ file.bigramCount = 0 - 1
  \/ Len(file.bigrams) < file.bigramCount

\* The maps UserDataManager::load may leave behind.  A read past the end
\* of the file leaves its target uninitialized: the comparison of magic or
\* of version with such a value may go either way.  Once a read has failed
\* the stream is not good and both loops stop.
LoadOutcomes(file, unigrams, bigrams) ==
  LET kept == [unigrams |-> unigrams, bigrams |-> bigrams]
      magicOk   == IF file.magic = "" THEN BOOLEAN ELSE { file.magic = "MKLD" }
      versionOk == IF file.version = 0 - 1 THEN BOOLEAN ELSE { file.version = 1 }
      goodAfterUnigrams ==
        file.unigramCount >= 0 /\ Len(file.unigrams) >= file.unigramCount
      read == [unigrams |-> applyDecay(ReadEntries(file.unigrams, file.unigramCount, NoCounts)),
               bigrams  |-> IF goodAfterUnigrams
                            THEN applyDecay(ReadEntries(file.bigrams, file.bigramCount, NoCounts))
                            ELSE NoCounts]
  IN  IF ~file.open
      THEN { kept }
      ELSE { IF m /\ v THEN read ELSE kept : m \in magicOk, v \in versionOk }

\* The orders in which a range-for over an unordered_map may visit its
\* entries.
RECURSIVE Orderings(_)
Orderings(S) ==
  IF S = {}
  THEN { << >> }
  ELSE UNION { { << x >> \o rest : rest \in Orderings(S \ { x }) } : x \in S }

\* The files UserDataManager::save may write.
SavedFiles(unigrams, bigrams) ==
  { [open |-> TRUE, magic |-> "MKLD", version |-> 1,
     unigramCount |-> Len(us),
     unigrams |-> [i \in 1..Len(us) |-> << us[i], unigrams[us[i]] >>],
     bigramCount |-> Len(bs),
     bigrams |-> [i \in 1..Len(bs) |-> << bs[i], bigrams[bs[i]] >>]] :
      us \in Orderings(DOMAIN unigrams), bs \in Orderings(DOMAIN bigrams) }

\* UserDataManager::pruneIfNeeded on one map: above the limit only the
\* limit * 9 / 10 entries of the highest counts stay; std::sort leaves the
\* order of equal counts open.
\* The entries that stay are those above the count of the last entry kept
\* and as many of the entries of that very count as there is room for.
PrunedTo(map, keep) ==
  LET counts == { map[k] : k \in DOMAIN map }
      Above(c) == { k \in DOMAIN map : map[k] > c }
      cut == CHOOSE c \in counts :
               /\ Cardinality(Above(c)) <= keep
               /\ Cardinality({ k \in DOMAIN map : map[k] >= c }) >= keep
      sure == Above(cut)
      ties == { k \in DOMAIN map : map[k] = cut }
      room == keep - Cardinality(sure)
  IN  { [k \in sure \cup T |-> map[k]] :
          T \in { T \in SUBSET ties : Cardinality(T) = room } }

PruneOutcomesLate(map, limit) ==
  IF Cardinality(DOMAIN map) <= limit + 1
  THEN { map }
  ELSE PrunedTo(map, (limit * 9) \div 10)

PruneOutcomes(map, limit) ==
  IF Cardinality(DOMAIN map) <= limit
  THEN { map }
  ELSE PrunedTo(map, (limit * 9) \div 10)

\* log1p(n) in thousandths, for the counts of the model.
Log1pMilli(n) ==
  << 0, 693, 1099, 1386, 1609, 1792, 1946, 2079, 2197, 2303, 2398, 2485,
     2565, 2639, 2708, 2773, 2833 >>[n + 1]

BigramKey(previousWord, word) ==
  ToLowerString(previousWord) \o << "|" >> \o ToLowerString(word)

\* UserDataManager::getUnigramBoost and getBigramBoost, in ten-thousandths.
getUnigramBoost(unigrams, word) ==
  IF word = << >> \/ ToLowerString(word) \notin DOMAIN unigrams
  THEN 0
  ELSE Log1pMilli(unigrams[ToLowerString(word)]) * UNIGRAM_WEIGHT_TENTHS

getBigramBoost(bigrams, word, previousWord) ==
  IF word = << >> \/ previousWord = << >> \/ BigramKey(previousWord, word) \notin DOMAIN bigrams
  THEN 0
  ELSE Log1pMilli(bigrams[BigramKey(previousWord, word)]) * BIGRAM_WEIGHT_TENTHS

\* UserDataManager::getLearningBoost
getLearningBoost(unigrams, bigrams, lastWord, word, previousWord) ==
  LET context == IF previousWord = << >> THEN lastWord ELSE previousWord
  IN  getUnigramBoost(unigrams, word)
        + (IF context # << >> THEN getBigramBoost(bigrams, word, context) ELSE 0)

\* ------------------------------------------------------------------------
\* MagicKeyboardEngine: focus and visibility (magickeyboard.cpp).  An input
\* context is known by its id; InputContexts gives what fcitx reports for
\* it: the addon of its input method entry ("none" for a null entry), the
\* global input method, and its capability flags.
\* ------------------------------------------------------------------------
DEBOUNCE_SHOW_MS == 50

DEBOUNCE_HIDE_MS == 100

InputContexts ==
  [ic \in { "A", "B", "P", "S", "N", "O" } |->
     [addon    |-> IF ic = "B" THEN "none" ELSE IF ic = "O" THEN "pinyin" ELSE "magickeyboard",
      globalIM |-> IF ic = "B" THEN "magic-keyboard" ELSE "pinyin",
      caps     |-> CASE ic = "P" -> { "Password" }
                     [] ic = "S" -> { "Sensitive" }
                     [] ic = "N" -> { "NoOnScreenKeyboard" }
                     [] OTHER -> {}]]

\* MagicKeyboardEngine::shouldShowKeyboard
shouldShowKeyboard(ic) ==
  LET info   == InputContexts[ic]
      isOurs == IF info.addon = "none"
                THEN info.globalIM = "magic-keyboard"
                ELSE info.addon = "magickeyboard"
  IN  /\ ic # "none"
      /\ isOurs
      /\ "Password" \notin info.caps
      /\ "NoOnScreenKeyboard" \notin info.caps
      /\ "Sensitive" \notin info.caps

NoTimer == [target |-> "none", delayMs |-> 0]

\* ------------------------------------------------------------------------
\* KeyboardBridge (ui/main.cpp): backspace auto-repeat.  Times are in ms.
\* ------------------------------------------------------------------------
BACKSPACE_INITIAL_DELAY_MS == 250

BACKSPACE_REPEAT_INTERVAL_MS == 45

\* backspaceRepeatTimer_ when it is not running.
TimerStopped == 0 - 1

\* ------------------------------------------------------------------------
\* lexicon::Trie (engine/lexicon/Trie.cpp).  nodes_ is a vector whose index
\* 0 is the root; the model keeps it as a sequence, node n at place n + 1.
\* ------------------------------------------------------------------------
\* Trie::charToIndex
charToIndex(c) ==
  IF \E i \in 1..26 : LowerLetters[i] = c
  THEN (CHOOSE i \in 1..26 : LowerLetters[i] = c) - 1
  ELSE IF c = "'" THEN 26 ELSE 0 - 1

\* TrieNode::TrieNode
NewTrieNode ==
  [children |-> [i \in 0..26 |-> 0 - 1], isTerminal |-> FALSE, frequency |-> 0]

\* The loop of Trie::insert from the node curr on: a character without an
\* index is skipped, a missing child is appended to nodes_.
RECURSIVE TrieInsertFrom(_, _, _, _)
TrieInsertFrom(nodes, curr, word, freq) ==
  IF word = << >>
  THEN [nodes EXCEPT ![curr + 1].isTerminal = TRUE, ![curr + 1].frequency = freq]
  ELSE LET idx == charToIndex(Head(word))
       IN  IF idx = 0 - 1
           THEN TrieInsertFrom(nodes, curr, Tail(word), freq)
           ELSE LET grown == IF nodes[curr + 1].children[idx] = 0 - 1
                             THEN Append([nodes EXCEPT ![curr + 1].children[idx] = Len(nodes)],
                                         NewTrieNode)
                             ELSE nodes
                IN  TrieInsertFrom(grown, grown[curr + 1].children[idx], Tail(word), freq)

\* The loop of Trie::contains from the node curr on.
RECURSIVE TrieContainsFrom(_, _, _)
TrieContainsFrom(nodes, curr, word) ==
  IF word = << >>
  THEN nodes[curr + 1].isTerminal
  ELSE LET idx == charToIndex(Head(word))
       IN  IF idx = 0 - 1
           THEN FALSE
           ELSE IF nodes[curr + 1].children[idx] = 0 - 1
                THEN FALSE
                ELSE TrieContainsFrom(nodes, nodes[curr + 1].children[idx], Tail(word))

\* ------------------------------------------------------------------------
\* State
\* ------------------------------------------------------------------------
VARIABLES
  keys_,      \* SwipeEngine::keys_
  inPath,     \* the caller's std::vector<Point> handed to mapPathToSequence
  seCalled,   \* mapPathToSequence has returned for inPath
  seSeq,      \* the sequence it returned
  mkStatics,  \* the statics candidateKey, candidateCount of MagicKeyboardEngine::mapPathToSequence
  mkPath,     \* the points of the swipe_path message the UI is sending
  mkCalled,   \* processLine has handled the message
  mkSeq,      \* the sequence mapPathToSequence returned for it
  ppRaw,      \* a raw key sequence
  ppStage,    \* how many times the post-processing has been applied to it
  ppOut1,     \* removeBouncesAndDuplicates(ppRaw)
  ppOut2,     \* removeBouncesAndDuplicates(ppOut1)
  gaKeys,             \* GestureAgent::keys_
  onTap_,             \* a tap callback is registered
  onSwipe_,           \* a swipe callback is registered
  state_,             \* GestureAgent::state_
  startPosWindow_,
  startPosLayout_,
  startTime_,
  lastSmoothedWindow_,
  lastSmoothedLayout_,
  path_,              \* GestureAgent::path_
  hysteresis_,        \* the members currentKey_, candidateKey_, candidateCount_
  now,                \* the clock the pointer timestamps are read from
  emitted,            \* the results handed to the callbacks since the last pointer-down
  lastCall,           \* the last call made on the agent, with its arguments
  allWithin,          \* every pointer-move since pointer-down was within the deadzone radius
  moves               \* the number of pointer-moves since pointer-down

seVars == << keys_, inPath, seCalled, seSeq >>

mkVars == << mkStatics, mkPath, mkCalled, mkSeq >>

ppVars == << ppRaw, ppStage, ppOut1, ppOut2 >>

gaVars == << config_, gaKeys, onTap_, onSwipe_, state_, startPosWindow_, startPosLayout_,
            startTime_, lastSmoothedWindow_, lastSmoothedLayout_, path_,
            hysteresis_, now, emitted, lastCall, allWithin, moves >>

\* ---- the arguments and results of a call of levenshtein ----
VARIABLES
  levS1,      \* the first string the caller passes
  levS2,      \* the second string
  levLimit,   \* the limit
  levCalled,  \* both engines' levenshtein have returned for these arguments
  levOut,     \* what SwipeEngine::levenshtein returned
  mkLevOut    \* what MagicKeyboardEngine::levenshtein returned

lvVars == << levS1, levS2, levLimit, levCalled, levOut, mkLevOut >>


\* ---- dictionaries and the last call made on an engine ----
VARIABLES
  dictionary_,         \* SwipeEngine::dictionary_
  buckets_,            \* SwipeEngine::buckets_
  mkDictionary_,       \* MagicKeyboardEngine::dictionary_
  mkBuckets_,          \* MagicKeyboardEngine::buckets_
  mkDictLoaded,        \* the constructor's call of loadDictionary has been made
  currentCandidates_,  \* MagicKeyboardEngine::currentCandidates_
  candidateMode_,      \* MagicKeyboardEngine::candidateMode_
  templates_,          \* Shark2Engine::templates_
  skBuckets_,          \* Shark2Engine::buckets_
  rk,                  \* the last call of a dictionary or ranking operation: its name, arguments and result
  loadedOk             \* the engines on which a load has returned true

sdVars == << dictionary_, buckets_ >>

mdVars == << mkDictionary_, mkBuckets_, mkDictLoaded, currentCandidates_, candidateMode_ >>

skVars == << keyCenters_, templates_, skBuckets_ >>

rkVars == << rk, loadedOk >>

\* ---- UserDataManager and the file learned.dat ----
VARIABLES
  unigrams_,              \* UserDataManager::unigrams_
  bigrams_,               \* UserDataManager::bigrams_
  lastWord_,              \* UserDataManager::lastWord_
  commitsSinceLastSave_,  \* UserDataManager::commitsSinceLastSave_
  loaded_,                \* UserDataManager::loaded_
  dataFile,               \* the file learned.dat on disk
  corruptSinceLoad        \* the last load read a corrupt file and no commit was recorded since

udVars == << unigrams_, bigrams_, lastWord_, commitsSinceLastSave_, loaded_,
            dataFile, corruptSinceLoad >>

\* ---- MagicKeyboardEngine: focus and visibility state ----
VARIABLES
  visibilityState_,  \* MagicKeyboardEngine::visibilityState_
  currentIC_,        \* MagicKeyboardEngine::currentIC_ ("none" for nullptr)
  pendingIC_,        \* MagicKeyboardEngine::pendingIC_
  debounceTimer_,    \* the armed debounce timer: its target and delay, or NoTimer
  hasClient,         \* clients_ is not empty
  focusedICs,        \* fcitx: the input contexts that have focus, the last focused first
  sentNow,           \* the messages the last step wrote to UI clients
  lastEvent,         \* the last step: its kind, input context and the visibility state before it
  rejectedSince      \* the last FocusIn was for a context shouldShowKeyboard rejects

fvVars == << visibilityState_, currentIC_, pendingIC_, debounceTimer_, hasClient,
            focusedICs, sentNow, lastEvent, rejectedSince >>

\* ---- KeyboardBridge: backspace auto-repeat ----
VARIABLES
  backspaceHeld_,         \* KeyboardBridge::backspaceHeld_
  backspaceHoldElapsed_,  \* the time backspaceHoldElapsed_ was restarted at
  backspaceRepeatTimer_,  \* the time the repeat timer is due at, or TimerStopped
  singleShots,            \* the due times of the pending QTimer::singleShot calls
  uiNow,                  \* the UI thread's clock
  uiSent,                 \* the actions the last step handed to sendAction
  uiLast                  \* the last step of the bridge

uiVars == << backspaceHeld_, backspaceHoldElapsed_, backspaceRepeatTimer_, singleShots,
            uiNow, uiSent, uiLast >>

\* ---- lexicon::Trie ----
VARIABLES
  nodes_,     \* Trie::nodes_
  inserted,   \* the strings insert was called with
  trieCall    \* the last call of the trie and what it returned

trVars == << nodes_, inserted, trieCall >>

extVars == << lvVars, sdVars, mdVars, skVars, rkVars, udVars, fvVars, uiVars, trVars >>

vars == << seVars, mkVars, ppVars, gaVars, extVars >>

SEInit ==
  /\ keys_ = << >>
  /\ inPath = << >>
  /\ seCalled = FALSE
  /\ seSeq = << >>

MKInit ==
  /\ mkStatics = NullStatics
  /\ mkPath = << >>
  /\ mkCalled = FALSE
  /\ mkSeq = << >>

PPInit ==
  /\ ppRaw = << >>
  /\ ppStage = 0
  /\ ppOut1 = << >>
  /\ ppOut2 = << >>

NoCall == [type |-> "none", pre |-> "Idle"]

GAInit ==
  /\ config_ = DefaultConfig
  /\ gaKeys = << >>
  /\ onTap_ = FALSE
  /\ onSwipe_ = FALSE
  /\ state_ = "Idle"
  /\ startPosWindow_ = << 0, 0 >>
  /\ startPosLayout_ = << 0, 0 >>
  /\ startTime_ = 0
  /\ lastSmoothedWindow_ = << 0, 0 >>
  /\ lastSmoothedLayout_ = << 0, 0 >>
  /\ path_ = << >>
  /\ hysteresis_ = NullStatics
  /\ now = 0
  /\ emitted = << >>
  /\ lastCall = NoCall
  /\ allWithin = TRUE
  /\ moves = 0

LVInit ==
  /\ levS1 = << >>
  /\ levS2 = << >>
  /\ levLimit = 0
  /\ levCalled = FALSE
  /\ levOut = 0
  /\ mkLevOut = 0


SDInit ==
  /\ dictionary_ = << >>
  /\ buckets_ = EmptyBuckets

MDInit ==
  /\ mkDictionary_ = << >>
  /\ mkBuckets_ = EmptyBuckets
  /\ mkDictLoaded = FALSE
  /\ currentCandidates_ = << >>
  /\ candidateMode_ = FALSE

SKInit ==
  /\ keyCenters_ = initializeKeyboard
  /\ templates_ = << >>
  /\ skBuckets_ = EmptyBuckets

NoRankCall == [op |-> "none"]

RKInit ==
  /\ rk = NoRankCall
  /\ loadedOk = {}

\* No learned.dat exists before the first save.
NoDataFile ==
  [open |-> FALSE, magic |-> "", version |-> 0 - 1, unigramCount |-> 0 - 1,
   unigrams |-> << >>, bigramCount |-> 0 - 1, bigrams |-> << >>]

UDInit ==
  /\ unigrams_ = NoCounts
  /\ bigrams_ = NoCounts
  /\ lastWord_ = << >>
  /\ commitsSinceLastSave_ = 0
  /\ loaded_ = FALSE
  /\ dataFile = NoDataFile
  /\ corruptSinceLoad = FALSE

NoEvent == [type |-> "none", ic |-> "none", pre |-> "Hidden"]

FVInit ==
  /\ visibilityState_ = "Hidden"
  /\ currentIC_ = "none"
  /\ pendingIC_ = "none"
  /\ debounceTimer_ = NoTimer
  /\ hasClient = FALSE
  /\ focusedICs = << >>
  /\ sentNow = << >>
  /\ lastEvent = NoEvent
  /\ rejectedSince = FALSE

UIInit ==
  /\ backspaceHeld_ = FALSE
  /\ backspaceHoldElapsed_ = 0
  /\ backspaceRepeatTimer_ = TimerStopped
  /\ singleShots = {}
  /\ uiNow = 0
  /\ uiSent = << >>
  /\ uiLast = "none"

\* Trie::Trie: the root node alone.
TrieInit ==
  /\ nodes_ = << NewTrieNode >>
  /\ inserted = {}
  /\ trieCall = [op |-> "none", word |-> << >>, ret |-> FALSE]

ExtInit ==
  LVInit /\ SDInit /\ MDInit /\ SKInit /\ RKInit /\ UDInit /\ FVInit /\ UIInit /\ TrieInit

Init == SEInit /\ MKInit /\ PPInit /\ GAInit /\ ExtInit

\* ---- SwipeEngine ----
\* SwipeEngine::loadLayout: keys_ is cleared first, then filled when the
\* file opens.
loadLayout(fileOpens) ==
  /\ keys_' = IF fileOpens THEN ParsedLayout ELSE << >>
  /\ seCalled' = FALSE
  /\ seSeq' = << >>
  /\ loadedOk' = IF fileOpens THEN loadedOk \cup { "SwipeEngine" } ELSE loadedOk
  /\ UNCHANGED << inPath, mkVars, ppVars, gaVars, udVars, fvVars, lvVars, sdVars, mdVars, skVars, rk, uiVars, trVars >>

\* The caller appends a point to the path it is going to pass.
PushPoint(p) ==
  /\ Len(inPath) < MaxPathLen
  /\ inPath' = Append(inPath, p)
  /\ seCalled' = FALSE
  /\ seSeq' = << >>
  /\ UNCHANGED << keys_, mkVars, ppVars, gaVars, extVars >>

\* The caller starts a new path.
ClearPath ==
  /\ inPath # << >>
  /\ inPath' = << >>
  /\ seCalled' = FALSE
  /\ seSeq' = << >>
  /\ UNCHANGED << keys_, mkVars, ppVars, gaVars, extVars >>

CallMapPathToSequence ==
  /\ ~seCalled
  /\ seSeq' = mapPathToSequence(keys_, inPath)
  /\ seCalled' = TRUE
  /\ UNCHANGED << keys_, inPath, mkVars, ppVars, gaVars, extVars >>

Next ==
  \/ \E ok \in BOOLEAN : loadLayout(ok)
  \/ \E p \in SamplePoints : PushPoint(p)
  \/ ClearPath
  \/ CallMapPathToSequence

Spec == Init /\ [][Next]_vars

\* ---- MagicKeyboardEngine, swipe_path messages ----
\* The UI adds a point to the swipe it is recording.
MKPushPoint(p) ==
  /\ ~mkCalled
  /\ Len(mkPath) < MaxMKPathLen
  /\ mkPath' = Append(mkPath, p)
  /\ UNCHANGED << mkStatics, mkCalled, mkSeq, seVars, ppVars, gaVars, extVars >>

\* keysString: the ids of the sequence appended one after the other.  Every
\* id of the model's layout is one character.
RECURSIVE JoinKeys(_)
JoinKeys(seq) ==
  IF seq = << >> THEN << >> ELSE << Head(seq) >> \o JoinKeys(Tail(seq))

\* processLine, "type":"swipe_path": a non-empty path is mapped and
\* candidates are generated for the keys it crossed.
MKProcessSwipePath ==
  /\ mkDictLoaded
  /\ ~mkCalled
  /\ mkPath # << >>
  /\ LET res == MKMapPathToSequence(MKLayout, mkPath, mkStatics)
     IN  /\ mkSeq' = res.seq
         /\ mkStatics' = res.statics
         /\ \E out \in MKgenerateCandidates(mkDictionary_, mkBuckets_, JoinKeys(res.seq)) :
              /\ currentCandidates_' = out
              /\ candidateMode_' = (out # << >>)
  /\ mkCalled' = TRUE
  /\ UNCHANGED << mkPath, mkDictionary_, mkBuckets_, mkDictLoaded,
                  seVars, ppVars, gaVars, udVars, fvVars, lvVars, sdVars, skVars, rkVars, uiVars, trVars >>

\* The UI starts recording the next swipe.
MKNextSwipe ==
  /\ mkCalled
  /\ mkPath' = << >>
  /\ mkCalled' = FALSE
  /\ mkSeq' = << >>
  /\ UNCHANGED << mkStatics, seVars, ppVars, gaVars, extVars >>

\* ---- the post-processing step on its own ----
KeyIds == { LayoutRows[i].code : i \in 1..3 }

RECURSIVE SeqsUpTo(_, _)
SeqsUpTo(S, n) ==
  IF n = 0 THEN { << >> }
  ELSE LET shorter == SeqsUpTo(S, n - 1)
       IN  shorter \cup { Append(q, x) : q \in shorter, x \in S }

InitPost ==
  /\ SEInit
  /\ MKInit
  /\ GAInit
  /\ ExtInit
  /\ ppRaw \in SeqsUpTo(KeyIds, MaxRawLen)
  /\ ppStage = 0
  /\ ppOut1 = << >>
  /\ ppOut2 = << >>

PostProcessOnce ==
  /\ ppStage = 0
  /\ ppOut1' = removeBouncesAndDuplicates(ppRaw)
  /\ ppStage' = 1
  /\ UNCHANGED << ppRaw, ppOut2, seVars, mkVars, gaVars, extVars >>

PostProcessAgain ==
  /\ ppStage = 1
  /\ ppOut2' = removeBouncesAndDuplicates(ppOut1)
  /\ ppStage' = 2
  /\ UNCHANGED << ppRaw, ppOut1, seVars, mkVars, gaVars, extVars >>

NextPost == PostProcessOnce \/ PostProcessAgain

SpecPost == InitPost /\ [][NextPost]_vars

\* ---- GestureAgent ----
\* The window position of the keyboard's layout origin, and the pointer
\* positions (layout space) the events are drawn from: the centre of q, two
\* points 6 px and exactly 10 px from it, the gap between q and e, a point
\* inside o, and a point far from every key.
WindowOrigin == << 4, 0 >>

ToWindow(l) == << l[1] + WindowOrigin[1], l[2] + WindowOrigin[2] >>

PointerPositions == { PtQ, << 36, 25 >>, << 40, 25 >>, PtGap, PtO, PtFar }

TimeSteps == { 20, 40 }

Timestamps == { t \in { now + d : d \in TimeSteps } : t <= MaxTime }

GAsetKeys(ks) ==
  /\ gaKeys' = ks
  /\ lastCall' = [type |-> "setKeys", pre |-> state_]
  /\ UNCHANGED << config_, onTap_, onSwipe_, state_, startPosWindow_, startPosLayout_,
                  startTime_, lastSmoothedWindow_, lastSmoothedLayout_, path_,
                  hysteresis_, now, emitted, allWithin, moves, seVars, mkVars, ppVars, extVars >>

setTapCallback(registered) ==
  /\ onTap_' = registered
  /\ lastCall' = [type |-> "setTapCallback", pre |-> state_]
  /\ UNCHANGED << config_, gaKeys, onSwipe_, state_, startPosWindow_, startPosLayout_,
                  startTime_, lastSmoothedWindow_, lastSmoothedLayout_, path_,
                  hysteresis_, now, emitted, allWithin, moves, seVars, mkVars, ppVars, extVars >>

setSwipeCallback(registered) ==
  /\ onSwipe_' = registered
  /\ lastCall' = [type |-> "setSwipeCallback", pre |-> state_]
  /\ UNCHANGED << config_, gaKeys, onTap_, state_, startPosWindow_, startPosLayout_,
                  startTime_, lastSmoothedWindow_, lastSmoothedLayout_, path_,
                  hysteresis_, now, emitted, allWithin, moves, seVars, mkVars, ppVars, extVars >>

pointerDownKeepsPath(windowPos, layoutPos, timestamp) ==
  /\ now' = timestamp
  /\ startPosWindow_' = windowPos
  /\ startPosLayout_' = layoutPos
  /\ startTime_' = timestamp
  /\ lastSmoothedWindow_' = windowPos
  /\ lastSmoothedLayout_' = layoutPos
  /\ state_' = "TapPending"
  /\ emitted' = << >>
  /\ allWithin' = TRUE
  /\ moves' = 0
  /\ lastCall' = [type |-> "down", pre |-> state_, window |-> windowPos,
                  timestamp |-> timestamp]
  /\ UNCHANGED << path_, hysteresis_, config_, gaKeys, onTap_, onSwipe_, seVars, mkVars, ppVars, extVars >>

pointerDown(windowPos, layoutPos, timestamp) ==
  /\ now' = timestamp
  \* reset()
  /\ path_' = << >>
  /\ hysteresis_' = NullStatics
  /\ startPosWindow_' = windowPos
  /\ startPosLayout_' = layoutPos
  /\ startTime_' = timestamp
  /\ lastSmoothedWindow_' = windowPos
  /\ lastSmoothedLayout_' = layoutPos
  /\ state_' = "TapPending"
  /\ emitted' = << >>
  /\ allWithin' = TRUE
  /\ moves' = 0
  /\ lastCall' = [type |-> "down", pre |-> state_, window |-> windowPos,
                  timestamp |-> timestamp]
  /\ UNCHANGED << config_, gaKeys, onTap_, onSwipe_, seVars, mkVars, ppVars, extVars >>

pointerMove(windowPos, layoutPos, timestamp) ==
  /\ now' = timestamp
  /\ lastCall' = [type |-> "move", pre |-> state_, window |-> windowPos,
                  timestamp |-> timestamp]
  /\ IF state_ = "Idle"
     THEN UNCHANGED << state_, path_, lastSmoothedWindow_, lastSmoothedLayout_,
                       allWithin, moves >>
     ELSE LET smoothedWindow == smooth(windowPos, lastSmoothedWindow_)
              smoothedLayout == smooth(layoutPos, lastSmoothedLayout_)
              distSq == distanceSquaredTo(startPosWindow_, windowPos)
              dt == timestamp - startTime_
              breaks == state_ = "TapPending" /\ BreaksDeadzone(distSq, dt)
              state1 == IF breaks THEN "Swiping" ELSE state_
              path1 == IF breaks
                       THEN Append(path_, [window |-> startPosWindow_,
                                           layout |-> startPosLayout_,
                                           timestamp |-> startTime_])
                       ELSE path_
              candidate == [window |-> smoothedWindow, layout |-> smoothedLayout,
                            timestamp |-> timestamp]
          IN  /\ state_' = state1
              /\ allWithin' = (allWithin /\ distSq <= config_.deadzoneRadius * config_.deadzoneRadius)
              /\ moves' = moves + 1
              /\ IF state1 = "Swiping"
                 THEN /\ path_' = IF shouldAddSample(path1, candidate)
                                  THEN Append(path1, candidate)
                                  ELSE path1
                      /\ lastSmoothedWindow_' = smoothedWindow
                      /\ lastSmoothedLayout_' = smoothedLayout
                 ELSE /\ path_' = path1
                      /\ UNCHANGED << lastSmoothedWindow_, lastSmoothedLayout_ >>
  /\ UNCHANGED << config_, gaKeys, onTap_, onSwipe_, startPosWindow_, startPosLayout_,
                  startTime_, hysteresis_, emitted, seVars, mkVars, ppVars, extVars >>

pointerUp(windowPos, layoutPos, timestamp) ==
  /\ now' = timestamp
  /\ lastCall' = [type |-> "up", pre |-> state_, window |-> windowPos,
                  timestamp |-> timestamp]
  /\ state_' = "Idle"
  /\ IF UpKind(state_) = "tap"
     THEN /\ emitted' =
               IF onTap_
               THEN LET key == findNearestKey(gaKeys, startPosLayout_)
                    IN  Append(emitted,
                               [kind |-> "tap",
                                keyId |-> IF key # 0 THEN gaKeys[key].id ELSE "",
                                position |-> startPosLayout_])
               ELSE emitted
          /\ UNCHANGED path_
     ELSE IF UpKind(state_) = "swipe"
     THEN LET finalPoint == [window |-> smooth(windowPos, lastSmoothedWindow_),
                             layout |-> smooth(layoutPos, lastSmoothedLayout_),
                             timestamp |-> timestamp]
              path1 == Append(path_, finalPoint)
          IN  /\ path_' = path1
              /\ emitted' =
                   IF onSwipe_
                   THEN Append(emitted,
                               [kind |-> "swipe",
                                path |-> path1,
                                keySequence |-> mapPathToKeys(gaKeys, path1),
                                durationMs |-> timestamp - startTime_])
                   ELSE emitted
     ELSE UNCHANGED << emitted, path_ >>
  /\ UNCHANGED << config_, gaKeys, onTap_, onSwipe_, startPosWindow_, startPosLayout_,
                  startTime_, lastSmoothedWindow_, lastSmoothedLayout_,
                  hysteresis_, allWithin, moves, seVars, mkVars, ppVars, extVars >>

\* GestureAgent::setConfig
setConfig(config) ==
  /\ config_' = config
  /\ lastCall' = [type |-> "setConfig", pre |-> state_]
  /\ UNCHANGED << gaKeys, onTap_, onSwipe_, state_, startPosWindow_, startPosLayout_,
                  startTime_, lastSmoothedWindow_, lastSmoothedLayout_, path_,
                  hysteresis_, now, emitted, allWithin, moves, seVars, mkVars, ppVars, extVars >>

resetPathOnly ==
  /\ path_' = << >>
  /\ hysteresis_' = NullStatics
  /\ lastCall' = [type |-> "reset", pre |-> state_]
  /\ UNCHANGED << config_, gaKeys, onTap_, onSwipe_, state_, startPosWindow_, startPosLayout_,
                  startTime_, lastSmoothedWindow_, lastSmoothedLayout_, now,
                  emitted, allWithin, moves, seVars, mkVars, ppVars, extVars >>

reset ==
  /\ state_' = "Idle"
  /\ path_' = << >>
  /\ hysteresis_' = NullStatics
  /\ lastCall' = [type |-> "reset", pre |-> state_]
  /\ UNCHANGED << config_, gaKeys, onTap_, onSwipe_, startPosWindow_, startPosLayout_,
                  startTime_, lastSmoothedWindow_, lastSmoothedLayout_, now,
                  emitted, allWithin, moves, seVars, mkVars, ppVars, extVars >>

NextGesture ==
  \/ \E ks \in { << >>, GALayout } : GAsetKeys(ks)
  \/ \E r \in BOOLEAN : setTapCallback(r)
  \/ \E r \in BOOLEAN : setSwipeCallback(r)
  \/ \E l \in PointerPositions, t \in Timestamps : pointerDown(ToWindow(l), l, t)
  \/ \E l \in PointerPositions, t \in Timestamps : pointerMove(ToWindow(l), l, t)
  \/ \E l \in PointerPositions, t \in Timestamps : pointerUp(ToWindow(l), l, t)
  \/ reset

SpecGesture == Init /\ [][NextGesture]_vars

\* ---- levenshtein ----
\* The chars the strings are made of: three lowercase letters and an
\* uppercase one.
LevChars == { "a", "b", "c", "B" }

\* The caller extends the first string, the second string, or picks a limit.
LevAppendS1(c) ==
  /\ Len(levS1) < MaxStrLen
  /\ levS1' = Append(levS1, c)
  /\ levCalled' = FALSE
  /\ levOut' = 0
  /\ mkLevOut' = 0
  /\ UNCHANGED << levS2, levLimit, seVars, mkVars, ppVars, gaVars, udVars, fvVars, sdVars, mdVars, skVars, rkVars, uiVars, trVars >>

LevAppendS2(c) ==
  /\ Len(levS2) < MaxStrLen
  /\ levS2' = Append(levS2, c)
  /\ levCalled' = FALSE
  /\ levOut' = 0
  /\ mkLevOut' = 0
  /\ UNCHANGED << levS1, levLimit, seVars, mkVars, ppVars, gaVars, udVars, fvVars, sdVars, mdVars, skVars, rkVars, uiVars, trVars >>

LevSetLimit(l) ==
  /\ l # levLimit
  /\ levLimit' = l
  /\ levCalled' = FALSE
  /\ levOut' = 0
  /\ mkLevOut' = 0
  /\ UNCHANGED << levS1, levS2, seVars, mkVars, ppVars, gaVars, udVars, fvVars, sdVars, mdVars, skVars, rkVars, uiVars, trVars >>

\* Both engines compute the distance of the two strings under the limit.
CallLevenshtein ==
  /\ ~levCalled
  /\ levOut' = levenshtein(levS1, levS2, levLimit)
  /\ mkLevOut' = MKlevenshtein(levS1, levS2, levLimit)
  /\ levCalled' = TRUE
  /\ UNCHANGED << levS1, levS2, levLimit, seVars, mkVars, ppVars, gaVars, udVars, fvVars, sdVars, mdVars, skVars, rkVars, uiVars, trVars >>

NextLev ==
  \/ \E c \in LevChars : LevAppendS1(c)
  \/ \E c \in LevChars : LevAppendS2(c)
  \/ \E l \in 0..MaxLimit : LevSetLimit(l)
  \/ CallLevenshtein

SpecLev == Init /\ [][NextLev]_vars

\* ---- dictionaries: the files on disk and the key strings of the calls ----
he == << "h", "e" >>

hoe == << "h", "o", "e" >>

hole == << "h", "o", "l", "e" >>

Hole == << "H", "o", "l", "e" >>

hellhole == << "h", "e", "l", "l", "h", "o", "l", "e" >>

heApostrophell == << "h", "e", "'", "l", "l" >>

eye == << "e", "y", "e" >>

high == << "h", "i", "g", "h" >>

home == << "h", "o", "m", "e" >>

hope == << "h", "o", "p", "e" >>

hose == << "h", "o", "s", "e" >>

have == << "h", "a", "v", "e" >>

here == << "h", "e", "r", "e" >>

hide == << "h", "i", "d", "e" >>

huge == << "h", "u", "g", "e" >>

\* A words file with an empty line, a line with an apostrophe, two words
\* that differ in case only, and words of several lengths and buckets.
WordsMixed ==
  [open |-> TRUE,
   lines |-> << hole, << >>, heApostrophell, Hole, he, hellhole, eye, high >>]

\* A words file with more than MAX_CANDIDATES words of one bucket.
WordsManyHE ==
  [open |-> TRUE,
   lines |-> << he, hoe, hole, home, hope, hose, have, here, hide, huge >>]

WordsEmpty == [open |-> TRUE, lines |-> << >>]

FreqRanked == [open |-> TRUE, lines |-> << << hole, 1 >>, << Hole, 2 >> >>]

FreqHuge == [open |-> TRUE, lines |-> << << he, UINT32_MAX >> >>]

\* A different rank for every word of one shape, so that few scores tie.
FreqManyHE ==
  [open |-> TRUE,
   lines |-> << << he, 1 >>, << hoe, 1 >>, << hole, 2 >>, << home, 2 >>, << hope, 3 >>,
                << hose, 10 >>, << have, 2 >>, << here, 3 >>, << hide, 10 >>,
                << huge, 1000 >> >>]

\* The pairs << words file, frequency file >> a load may find on disk.
DictionaryFiles ==
  { << MissingFile, MissingFile >>, << MissingFile, FreqRanked >>,
    << WordsEmpty, MissingFile >>, << WordsMixed, MissingFile >>,
    << WordsMixed, FreqRanked >>, << WordsMixed, FreqHuge >>,
    << WordsManyHE, FreqManyHE >> }

\* The strings handed to getShortlist and generateCandidates.
KeyStrings ==
  { << >>, << "h" >>, << "e" >>, << "'" >>, he, << "H", "E" >>, hoe, hole,
    << "h", "o", "l", "q", "e" >>, << "h", "e", "l", "l" >> }

\* ---- SwipeEngine: dictionary and ranking ----
loadDictionary(words, freqs) ==
  LET loaded == SELoadDictionary(words, freqs)
      ret    == words.open /\ loaded.dictionary # << >>
  IN  /\ dictionary_' = loaded.dictionary
      /\ buckets_' = loaded.buckets
      /\ rk' = [op |-> "SwipeEngine::loadDictionary", words |-> words, freqs |-> freqs,
                ret |-> ret]
      /\ loadedOk' = IF ret THEN loadedOk \cup { "SwipeEngine" } ELSE loadedOk
      /\ UNCHANGED << seVars, mkVars, ppVars, gaVars, udVars, fvVars, lvVars, mdVars, skVars, uiVars, trVars >>

CallGetShortlist(keys) ==
  /\ rk' = [op |-> "SwipeEngine::getShortlist", keys |-> keys,
            ret |-> getShortlist(dictionary_, buckets_, keys)]
  /\ UNCHANGED << seVars, mkVars, ppVars, gaVars, udVars, fvVars, lvVars, sdVars, mdVars, skVars, loadedOk, uiVars, trVars >>

\* The record of the call also holds the local shortlist.
CallGenerateCandidates(keySequence) ==
  /\ \E out \in generateCandidates(keys_, dictionary_, buckets_, keySequence) :
       rk' = [op |-> "SwipeEngine::generateCandidates", keys |-> keySequence,
              shortlist |-> getShortlist(dictionary_, buckets_, keySequence),
              ret |-> out]
  /\ UNCHANGED << seVars, mkVars, ppVars, gaVars, udVars, fvVars, lvVars, sdVars, mdVars, skVars, loadedOk, uiVars, trVars >>

\* ---- MagicKeyboardEngine: dictionary ----
\* loadDictionary is called once, from the constructor.
MKloadDictionary(words, freqs) ==
  LET loaded == MKLoadDictionary(words, freqs)
  IN  /\ ~mkDictLoaded
      /\ mkDictLoaded' = TRUE
      /\ mkDictionary_' = loaded.dictionary
      /\ mkBuckets_' = loaded.buckets
      /\ rk' = [op |-> "MagicKeyboardEngine::loadDictionary", words |-> words,
                freqs |-> freqs]
      /\ UNCHANGED << currentCandidates_, candidateMode_, loadedOk,
                      seVars, mkVars, ppVars, gaVars, udVars, fvVars, lvVars, sdVars, skVars, uiVars, trVars >>

CallMKGetShortlist(keys) ==
  /\ rk' = [op |-> "MagicKeyboardEngine::getShortlist", keys |-> keys,
            ret |-> getShortlist(mkDictionary_, mkBuckets_, keys)]
  /\ UNCHANGED << seVars, mkVars, ppVars, gaVars, udVars, fvVars, lvVars, sdVars, mdVars, skVars, loadedOk, uiVars, trVars >>

\* MagicKeyboardEngine: the constructor's load and the swipe_path messages.
\* The words.txt and freq.tsv the constructor finds.
MKDictionaryFiles == { << MissingFile, MissingFile >>, << WordsMixed, MissingFile >> }

NextMK ==
  \/ \E d \in MKDictionaryFiles : MKloadDictionary(d[1], d[2])
  \/ \E p \in SamplePoints : MKPushPoint(p)
  \/ MKProcessSwipePath
  \/ MKNextSwipe

SpecMK == Init /\ [][NextMK]_vars

\* The dictionaries of both engines and their getShortlist.
NextShortlist ==
  \/ \E d \in DictionaryFiles : loadDictionary(d[1], d[2])
  \/ \E keys \in KeyStrings : CallGetShortlist(keys)
  \/ \E d \in DictionaryFiles : MKloadDictionary(d[1], d[2])
  \/ \E keys \in KeyStrings : CallMKGetShortlist(keys)

SpecShortlist == Init /\ [][NextShortlist]_vars

\* SwipeEngine: the loads and generateCandidates.
NextDict ==
  \/ \E fileOpens \in BOOLEAN : loadLayout(fileOpens)
  \/ \E d \in DictionaryFiles : loadDictionary(d[1], d[2])
  \/ \E keys \in KeyStrings : CallGenerateCandidates(keys)

SpecDict == Init /\ [][NextDict]_vars

\* ---- Shark2Engine ----
was == << "w", "a", "s" >>

wax == << "w", "a", "x" >>

quiz == << "q", "u", "i", "z" >>

\* A dictionary file with a padded capitalised line, a one-letter word, a
\* line with an apostrophe and an empty line.
SkWords ==
  [open |-> TRUE,
   lines |-> << was, << " ", "A", "s", " " >>, << "a" >>, quiz, << "w", "'", "x" >>,
                << >>, wax >>]

SkFiles == { MissingFile, WordsEmpty, SkWords, WordsMixed }

\* The vectors handed to loadDictionaryWithFrequency.
SkWordLists ==
  { << >>, << << was, 3 >>, << << "a" >>, 1 >>, << Hole, 2 >>, << heApostrophell, 5 >> >> }

\* The input vectors of recognize, by their size, first and last point:
\* an empty vector, a single point, a two-point stroke from beside m to y
\* (the only common word in reach being "my") and a sixty-point stroke
\* that starts off the keyboard.
SkInputs ==
  { [size |-> 0, front |-> << 0, 0 >>, back |-> << 0, 0 >>],
    [size |-> 1, front |-> initializeKeyboard["m"], back |-> initializeKeyboard["m"]],
    [size |-> 2, front |-> << 540, 117 >>, back |-> initializeKeyboard["y"]],
    [size |-> 60, front |-> << 600, 200 >>, back |-> initializeKeyboard["y"]] }

\* The values of maxCandidates, an int.
SkCaps == { 0 - 1, 0, 2, 8 }

SkloadDictionary(file) ==
  LET loaded == SkLoadLines(file.lines, 1, NoTemplates)
      ret    == file.open /\ loaded.templates # << >>
  IN  /\ templates_' = IF file.open THEN loaded.templates ELSE templates_
      /\ skBuckets_' = IF file.open THEN loaded.buckets ELSE skBuckets_
      /\ rk' = [op |-> "Shark2Engine::loadDictionary", file |-> file, ret |-> ret]
      /\ loadedOk' = IF ret THEN loadedOk \cup { "Shark2Engine" } ELSE loadedOk
      /\ UNCHANGED << keyCenters_, seVars, mkVars, ppVars, gaVars, udVars, fvVars, lvVars, sdVars, mdVars, uiVars, trVars >>

loadDictionaryWithFrequency(words) ==
  LET loaded == SkLoadPairs(words, NoTemplates)
      ret    == loaded.templates # << >>
  IN  /\ templates_' = loaded.templates
      /\ skBuckets_' = loaded.buckets
      /\ rk' = [op |-> "Shark2Engine::loadDictionaryWithFrequency", wordList |-> words,
                ret |-> ret]
      /\ loadedOk' = IF ret THEN loadedOk \cup { "Shark2Engine" } ELSE loadedOk
      /\ UNCHANGED << keyCenters_, seVars, mkVars, ppVars, gaVars, udVars, fvVars, lvVars, sdVars, mdVars, uiVars, trVars >>

\* Shark2Engine::setKeyCenter
setKeyCenter(c, x, y) ==
  /\ keyCenters_' = [k \in DOMAIN keyCenters_ \cup { tolower(c) } |->
                       IF k = tolower(c) THEN << x, y >> ELSE keyCenters_[k]]
  /\ rk' = [op |-> "Shark2Engine::setKeyCenter", key |-> c, center |-> << x, y >>]
  /\ UNCHANGED << templates_, skBuckets_, loadedOk,
                  seVars, mkVars, ppVars, gaVars, udVars, fvVars, lvVars, sdVars, mdVars, uiVars, trVars >>

CallRecognize(inputPoints, maxCandidates) ==
  /\ \E out \in recognize(templates_, skBuckets_, inputPoints, maxCandidates) :
       rk' = [op |-> "Shark2Engine::recognize", inputPoints |-> inputPoints,
              maxCandidates |-> maxCandidates, ret |-> out]
  /\ UNCHANGED << seVars, mkVars, ppVars, gaVars, udVars, fvVars, lvVars, sdVars, mdVars, skVars, loadedOk, uiVars, trVars >>

\* ---- SwipeEngine::mapPathToSequence, called with a whole path ----
RankPaths == { << >>, << PtQ >>, << PtQ, PtE, PtO >> }

CallMapPathToSequenceOf(path) ==
  /\ rk' = [op |-> "SwipeEngine::mapPathToSequence", path |-> path,
            ret |-> mapPathToSequence(keys_, path)]
  /\ UNCHANGED << seVars, mkVars, ppVars, gaVars, udVars, fvVars, lvVars, sdVars, mdVars, skVars, loadedOk, uiVars, trVars >>

\* The pairs of files the SwipeEngine loads from in SpecRank.
RankDictionaryFiles == { << WordsMixed, MissingFile >>, << WordsManyHE, FreqManyHE >> }

RankKeyStrings == { he, hole }

my == << "m", "y" >>

may == << "m", "a", "y" >>

Mug == << "M", "u", "g" >>

\* Two dictionary files whose words start near m and end near y or g, one
\* with the common word "my" and one without.
SkWordsMY == [open |-> TRUE, lines |-> << may, my >>]

SkWordsMug == [open |-> TRUE, lines |-> << may, Mug >>]

RankSkFiles == { SkWordsMY, SkWordsMug }

RankSkInputs == { in \in SkInputs : in.size >= 2 }

\* The two rankers, SwipeEngine::generateCandidates and
\* Shark2Engine::recognize, and the loads they depend on.
NextRank ==
  \/ loadLayout(TRUE)
  \/ \E d \in RankDictionaryFiles : loadDictionary(d[1], d[2])
  \/ \E keys \in RankKeyStrings : CallGenerateCandidates(keys)
  \/ \E file \in RankSkFiles : SkloadDictionary(file)
  \/ \E inputPoints \in RankSkInputs, maxCandidates \in SkCaps :
       CallRecognize(inputPoints, maxCandidates)

SpecRank == Init /\ [][NextRank]_vars

\* The files and word lists of the loads in SpecRecognition.
RecDictionaryFiles ==
  { << MissingFile, MissingFile >>, << WordsEmpty, MissingFile >>,
    << WordsMixed, MissingFile >> }

RecKeyStrings == { << >>, << "h" >>, he, hole }

RecSkFiles == { MissingFile, WordsEmpty, SkWordsMY }

RecSkWordLists == { << >>, << << << "a" >>, 1 >>, << heApostrophell, 5 >> >>, << << my, 3 >> >> }

RecSkCaps == { 0, 8 }

\* The recognition calls of SwipeEngine and Shark2Engine and every load,
\* failing or not.
NextRecognition ==
  \/ \E fileOpens \in BOOLEAN : loadLayout(fileOpens)
  \/ \E d \in RecDictionaryFiles : loadDictionary(d[1], d[2])
  \/ \E path \in RankPaths : CallMapPathToSequenceOf(path)
  \/ \E keys \in RecKeyStrings : CallGenerateCandidates(keys)
  \/ \E file \in RecSkFiles : SkloadDictionary(file)
  \/ \E words \in RecSkWordLists : loadDictionaryWithFrequency(words)
  \/ \E inputPoints \in SkInputs, maxCandidates \in RecSkCaps :
       CallRecognize(inputPoints, maxCandidates)

SpecRecognition == Init /\ [][NextRecognition]_vars

\* The dictionary loads of the three engines.
NextLoad ==
  \/ \E d \in DictionaryFiles : loadDictionary(d[1], d[2])
  \/ \E d \in MKDictionaryFiles : MKloadDictionary(d[1], d[2])
  \/ \E file \in SkFiles : SkloadDictionary(file)
  \/ \E words \in SkWordLists : loadDictionaryWithFrequency(words)

SpecLoad == Init /\ [][NextLoad]_vars

\* ---- GestureAgent: path resampling under two configurations ----
\* The configurations passed to setConfig: the defaults, and the defaults
\* with smoothingAlpha = 1.0 (no smoothing, the candidate is the raw point).
GestureConfigs ==
  { DefaultConfig, [DefaultConfig EXCEPT !.smoothingAlphaPercent = 100] }

\* Pointer positions on one line: 14, 21 and 35 px to the right of q's centre.
ResamplePositions == { PtQ, << 44, 25 >>, << 51, 25 >>, << 65, 25 >> }

NextResample ==
  \/ \E c \in GestureConfigs : setConfig(c)
  \/ \E r \in BOOLEAN : setSwipeCallback(r)
  \/ \E l \in ResamplePositions, t \in Timestamps : pointerDown(ToWindow(l), l, t)
  \/ \E l \in ResamplePositions, t \in Timestamps : pointerMove(ToWindow(l), l, t)
  \/ \E l \in ResamplePositions, t \in Timestamps : pointerUp(ToWindow(l), l, t)
  \/ reset

SpecResample == Init /\ [][NextResample]_vars

\* ---- Shark2Engine::recognize on dictionaries that hold a word twice ----
\* Word lists for loadDictionaryWithFrequency: two different words, the
\* word "my" in two spellings that the loader lowercases to the same word,
\* and a list that names "may" twice.
MergeWordLists ==
  { << << may, 1 >>, << my, 2 >> >>,
    << << my, 3 >>, << << "M", "y" >>, 7 >> >>,
    << << may, 1 >>, << may, 1 >>, << Mug, 4 >> >> }

NextMerge ==
  \/ SkloadDictionary(SkWordsMY)
  \/ \E words \in MergeWordLists : loadDictionaryWithFrequency(words)
  \/ \E inputPoints \in RankSkInputs, maxCandidates \in SkCaps :
       CallRecognize(inputPoints, maxCandidates)

SpecMerge == Init /\ [][NextMerge]_vars

\* ---- Shark2Engine::recognize on strokes of many points ----
monastery == << "m", "o", "n", "a", "s", "t", "e", "r", "y" >>

memory == << "m", "e", "m", "o", "r", "y" >>

PruneWordLists ==
  { << << may, 1 >>, << monastery, 2 >> >>,
    << << memory, 1 >>, << my, 2 >> >>,
    << << may, 1 >>, << memory, 2 >>, << monastery, 3 >> >> }

\* Strokes from beside m to y of 2, 30 and 60 points.
PruneInputs ==
  { [size |-> n, front |-> << 540, 117 >>, back |-> initializeKeyboard["y"]] :
      n \in { 2, 30, 60 } }

NextPrune ==
  \/ \E words \in PruneWordLists : loadDictionaryWithFrequency(words)
  \/ \E inputPoints \in PruneInputs, maxCandidates \in { 2, 8 } :
       CallRecognize(inputPoints, maxCandidates)

SpecPrune == Init /\ [][NextPrune]_vars

\* ---- Shark2Engine: dictionary loads and key-centre changes ----
\* The keys moved by setKeyCenter, given in either case, and the centres
\* they are moved to: a new place, (0,0), and m's place in the constructor's
\* layout.
MovedKeys == { "m", "Y" }

NewCenters == { << 10, 10 >>, << 0, 0 >>, initializeKeyboard["m"] }

TemplateWordLists == { << << my, 3 >> >>, << << may, 1 >>, << Mug, 4 >> >> }

NextTemplates ==
  \/ SkloadDictionary(SkWordsMY)
  \/ \E words \in TemplateWordLists : loadDictionaryWithFrequency(words)
  \/ \E c \in MovedKeys, p \in NewCenters : setKeyCenter(c, p[1], p[2])

SpecTemplates == Init /\ [][NextTemplates]_vars

\* ---- UserDataManager ----
\* What save() does once the file is open: the file is rewritten from the
\* maps and the commit counter starts again.
SaveTo(unigrams, bigrams, fileOpens, file) ==
  IF fileOpens THEN file \in SavedFiles(unigrams, bigrams) ELSE file = dataFile

\* UserDataManager::load
UDload ==
  /\ \E out \in LoadOutcomes(dataFile, unigrams_, bigrams_) :
       /\ unigrams_' = out.unigrams
       /\ bigrams_' = out.bigrams
  /\ loaded_' = TRUE
  /\ corruptSinceLoad' =
       (dataFile.open /\ (dataFile.magic # "MKLD" \/ dataFile.version # 1 \/ IsTruncated(dataFile)))
  /\ rk' = [op |-> "UserDataManager::load", ret |-> TRUE]
  /\ UNCHANGED << lastWord_, commitsSinceLastSave_, dataFile, loadedOk,
                  seVars, mkVars, ppVars, gaVars, fvVars, lvVars, sdVars, mdVars, skVars, uiVars, trVars >>

\* UserDataManager::save; the file may fail to open for writing.
UDsave(fileOpens) ==
  /\ SaveTo(unigrams_, bigrams_, fileOpens, dataFile')
  /\ commitsSinceLastSave_' = IF fileOpens THEN 0 ELSE commitsSinceLastSave_
  /\ rk' = [op |-> "UserDataManager::save", ret |-> fileOpens]
  /\ UNCHANGED << unigrams_, bigrams_, lastWord_, loaded_, corruptSinceLoad, loadedOk,
                  seVars, mkVars, ppVars, gaVars, fvVars, lvVars, sdVars, mdVars, skVars, uiVars, trVars >>

\* UserDataManager::recordCommit, with the pruning and the automatic save
\* that end it.
recordCommit(word, previousWord, fileOpens) ==
  /\ rk' = [op |-> "UserDataManager::recordCommit", word |-> word,
            previousWord |-> previousWord]
  /\ IF word = << >>
     THEN UNCHANGED << unigrams_, bigrams_, lastWord_, commitsSinceLastSave_,
                       dataFile, corruptSinceLoad >>
     ELSE LET normalizedWord == ToLowerString(word)
              prev == IF previousWord = << >> /\ lastWord_ # << >>
                      THEN lastWord_ ELSE previousWord
              unigrams1 == PutCount(unigrams_, normalizedWord,
                                    CountOf(unigrams_, normalizedWord) + 1)
              bigrams1 == IF prev # << >>
                          THEN PutCount(bigrams_, BigramKey(prev, normalizedWord),
                                        CountOf(bigrams_, BigramKey(prev, normalizedWord)) + 1)
                          ELSE bigrams_
              commits1 == commitsSinceLastSave_ + 1
          IN  /\ unigrams_' \in PruneOutcomes(unigrams1, MAX_UNIGRAMS)
              /\ bigrams_' \in PruneOutcomes(bigrams1, MAX_BIGRAMS)
              /\ lastWord_' = normalizedWord
              /\ corruptSinceLoad' = FALSE
              /\ IF commits1 >= AUTO_SAVE_INTERVAL
                 THEN /\ SaveTo(unigrams_', bigrams_', fileOpens, dataFile')
                      /\ commitsSinceLastSave_' = IF fileOpens THEN 0 ELSE commits1
                 ELSE /\ dataFile' = dataFile
                      /\ commitsSinceLastSave_' = commits1
  /\ UNCHANGED << loaded_, loadedOk,
                  seVars, mkVars, ppVars, gaVars, fvVars, lvVars, sdVars, mdVars, skVars, uiVars, trVars >>

CallGetLearningBoost(word, previousWord) ==
  /\ rk' = [op |-> "UserDataManager::getLearningBoost", word |-> word,
            previousWord |-> previousWord,
            ret |-> getLearningBoost(unigrams_, bigrams_, lastWord_, word, previousWord)]
  /\ UNCHANGED << udVars, fvVars, loadedOk,
                  seVars, mkVars, ppVars, gaVars, lvVars, sdVars, mdVars, skVars, uiVars, trVars >>

\* UserDataManager::reset
UDreset ==
  /\ unigrams_' = NoCounts
  /\ bigrams_' = NoCounts
  /\ lastWord_' = << >>
  /\ commitsSinceLastSave_' = 0
  /\ dataFile' = NoDataFile
  /\ rk' = [op |-> "UserDataManager::reset"]
  /\ UNCHANGED << loaded_, corruptSinceLoad, loadedOk,
                  seVars, mkVars, ppVars, gaVars, fvVars, lvVars, sdVars, mdVars, skVars, uiVars, trVars >>

\* Something other than the program replaces learned.dat.
ReplaceDataFile(file) ==
  /\ dataFile' = file
  /\ rk' = [op |-> "replace learned.dat"]
  /\ UNCHANGED << unigrams_, bigrams_, lastWord_, commitsSinceLastSave_, loaded_,
                  corruptSinceLoad, loadedOk,
                  seVars, mkVars, ppVars, gaVars, fvVars, lvVars, sdVars, mdVars, skVars, uiVars, trVars >>

May == << "M", "a", "y" >>

\* A sound file with one unigram and one bigram that survive the decay.
GoodDataFile ==
  [open |-> TRUE, magic |-> "MKLD", version |-> 1, unigramCount |-> 1,
   unigrams |-> << << my, 10 >> >>, bigramCount |-> 1,
   bigrams |-> << << BigramKey(may, my), 4 >> >>]

\* Corrupt files: a wrong magic header, an unknown version, a file cut
\* inside its header, a file cut after the first of two unigrams, and a
\* file cut inside its bigrams.
CorruptDataFiles ==
  { [GoodDataFile EXCEPT !.magic = "XXXX"],
    [GoodDataFile EXCEPT !.version = 2],
    [NoDataFile EXCEPT !.open = TRUE, !.magic = "MKLD"],
    [GoodDataFile EXCEPT !.unigramCount = 2, !.bigramCount = 0 - 1, !.bigrams = << >>],
    [GoodDataFile EXCEPT !.bigramCount = 2] }

CommitWords == { << >>, May }

\* The bound on the count of a word that a commit may still raise.
MaxFreq == 2

\* The bound on commitsSinceLastSave_, which grows while the saves fail.
MaxUnsaved == 11

NextUserData ==
  \/ UDload
  \/ \E fileOpens \in BOOLEAN : UDsave(fileOpens)
  \/ \E word \in CommitWords, fileOpens \in BOOLEAN :
       /\ CountOf(unigrams_, ToLowerString(word)) < MaxFreq
       /\ commitsSinceLastSave_ < MaxUnsaved
       /\ recordCommit(word, << >>, fileOpens)
  \/ \E word \in { my, May }, previousWord \in { << >>, may } :
       CallGetLearningBoost(word, previousWord)
  \/ UDreset
  \/ \E file \in { GoodDataFile } \cup CorruptDataFiles : ReplaceDataFile(file)

SpecUserData == Init /\ [][NextUserData]_vars

\* ------------------------------------------------------------------------
\* UserDataManager with maps at their limits
\* ------------------------------------------------------------------------
\* The i-th of the three-letter words aaa, aab, ...
BulkWord(i) ==
  << LowerLetters[((i \div 676) % 26) + 1], LowerLetters[((i \div 26) % 26) + 1],
     LowerLetters[(i % 26) + 1] >>

\* The counts of a file of limit entries: the limit * 9 / 10 - 1 most
\* frequent share one count, the next two a lower one, the rest a still
\* lower one; all survive the decay of load.
BulkCount(i, limit) ==
  IF i <= (limit * 9) \div 10 - 1 THEN 40
  ELSE IF i <= (limit * 9) \div 10 + 1 THEN 20 ELSE 10

\* A learned.dat with MAX_UNIGRAMS unigrams and MAX_BIGRAMS bigrams, the
\* largest file save can write.
BulkDataFile ==
  [open |-> TRUE, magic |-> "MKLD", version |-> 1,
   unigramCount |-> MAX_UNIGRAMS,
   unigrams |-> [i \in 1..MAX_UNIGRAMS |-> << BulkWord(i), BulkCount(i, MAX_UNIGRAMS) >>],
   bigramCount |-> MAX_BIGRAMS,
   bigrams |-> [i \in 1..MAX_BIGRAMS |->
                  << BigramKey(BulkWord(i), my), BulkCount(i, MAX_BIGRAMS) >>]]

Yam == << "Y", "a", "m" >>

\* yam is not in the file, the other words are.
BulkCommitWords ==
  { Yam, May, << "A", "n", "d" >>, << "H", "i", "m" >>, << "J", "o", "y" >> }

\* The bound on the commits since the start.
MaxLearnedCommits == 2

\* learned.dat is there or not when the program starts, load comes first
\* and the commits follow it.
NextLearnedBound ==
  \/ /\ ~loaded_
     /\ dataFile = NoDataFile
     /\ ReplaceDataFile(BulkDataFile)
  \/ /\ ~loaded_
     /\ UDload
  \/ \E word \in BulkCommitWords, previousWord \in { << >>, may } :
       /\ loaded_
       /\ CountOf(unigrams_, ToLowerString(word)) < MaxFreq
       /\ commitsSinceLastSave_ < MaxLearnedCommits
       /\ commitsSinceLastSave_ + 1 < AUTO_SAVE_INTERVAL
       /\ recordCommit(word, previousWord, TRUE)

SpecLearnedBound == Init /\ [][NextLearnedBound]_vars

\* The counts recordCommit(word, previousWord) leaves in a map before it prunes.
CommittedUnigrams ==
  PutCount(unigrams_, ToLowerString(rk'.word),
           CountOf(unigrams_, ToLowerString(rk'.word)) + 1)

CommittedBigrams ==
  LET prev == IF rk'.previousWord = << >> /\ lastWord_ # << >>
              THEN lastWord_ ELSE rk'.previousWord
      key  == BigramKey(prev, ToLowerString(rk'.word))
  IN  IF prev # << >> THEN PutCount(bigrams_, key, CountOf(bigrams_, key) + 1)
      ELSE bigrams_

\* after keeps entries of before with their counts, and no entry it drops
\* has a higher count than an entry it keeps.
KeepsMostFrequent(before, after) ==
  /\ \A k \in DOMAIN after : k \in DOMAIN before /\ after[k] = before[k]
  /\ \A c \in { before[o] : o \in DOMAIN before \ DOMAIN after } :
       \A d \in { after[k] : k \in DOMAIN after } : d >= c

SendToUI(msg) == IF hasClient THEN << msg >> ELSE << >>

\* fcitx::InputContext::hasFocus
hasFocus(ic) == \E i \in DOMAIN focusedICs : focusedICs[i] = ic

\* fcitx::InputContextManager::lastFocusedInputContext: the front of the
\* list of focused contexts, null when no context has focus.
lastFocusedInputContext == IF focusedICs = << >> THEN "none" ELSE Head(focusedICs)

WithoutIC(ics, ic) == SelectSeq(ics, LAMBDA other : other # ic)

\* At most this many input contexts hold focus at once.
MaxFocused == 2

\* MagicKeyboardEngine::executeShow
executeShow ==
  /\ visibilityState_' = "Visible"
  /\ pendingIC_' = "none"
  /\ sentNow' = SendToUI("show")

\* MagicKeyboardEngine::executeHide
executeHideOnlySends ==
  /\ pendingIC_' = "none"
  /\ sentNow' = SendToUI("hide")
  /\ UNCHANGED visibilityState_

executeHide ==
  /\ visibilityState_' = "Hidden"
  /\ pendingIC_' = "none"
  /\ sentNow' = SendToUI("hide")

OthersUnchangedByFocus ==
  UNCHANGED << seVars, mkVars, ppVars, gaVars, lvVars, sdVars, mdVars, skVars, rkVars, udVars, uiVars, trVars >>

\* MagicKeyboardEngine::handleFocusIn, called by the FocusIn watcher after
\* fcitx has given the context the focus.
handleFocusInKeepsTimer(ic) ==
  /\ focusedICs' = << ic >> \o focusedICs
  /\ lastEvent' = [type |-> "FocusIn", ic |-> ic, pre |-> visibilityState_]
  /\ rejectedSince' = ~shouldShowKeyboard(ic)
  /\ IF ~shouldShowKeyboard(ic)
     THEN IF visibilityState_ \in { "Visible", "PendingHide" }
          THEN /\ debounceTimer_' = NoTimer
               /\ executeHide
               /\ UNCHANGED currentIC_
          ELSE /\ sentNow' = << >>
               /\ UNCHANGED << visibilityState_, currentIC_, pendingIC_, debounceTimer_ >>
     ELSE /\ sentNow' = << >>
          /\ currentIC_' = ic
          /\ CASE visibilityState_ \in { "Hidden", "PendingShow" } ->
                    /\ pendingIC_' = ic
                    /\ visibilityState_' = "PendingShow"
                    /\ debounceTimer_' = [target |-> "Visible", delayMs |-> DEBOUNCE_SHOW_MS]
               [] visibilityState_ = "PendingHide" ->
                    /\ visibilityState_' = "Visible"
                    /\ UNCHANGED << pendingIC_, debounceTimer_ >>
               [] visibilityState_ = "Visible" ->
                    UNCHANGED << visibilityState_, pendingIC_, debounceTimer_ >>
  /\ UNCHANGED hasClient
  /\ OthersUnchangedByFocus

handleFocusIn(ic) ==
  /\ focusedICs' = << ic >> \o focusedICs
  /\ lastEvent' = [type |-> "FocusIn", ic |-> ic, pre |-> visibilityState_]
  /\ rejectedSince' = ~shouldShowKeyboard(ic)
  /\ IF ~shouldShowKeyboard(ic)
     THEN IF visibilityState_ \in { "Visible", "PendingHide" }
          THEN \* cancelDebounce(); executeHide()
               /\ debounceTimer_' = NoTimer
               /\ executeHide
               /\ UNCHANGED currentIC_
          ELSE /\ sentNow' = << >>
               /\ UNCHANGED << visibilityState_, currentIC_, pendingIC_, debounceTimer_ >>
     ELSE /\ sentNow' = << >>
          /\ currentIC_' = ic
          /\ CASE visibilityState_ \in { "Hidden", "PendingShow" } ->
                    /\ pendingIC_' = ic
                    /\ visibilityState_' = "PendingShow"
                    /\ debounceTimer_' = [target |-> "Visible", delayMs |-> DEBOUNCE_SHOW_MS]
               [] visibilityState_ = "PendingHide" ->
                    /\ debounceTimer_' = NoTimer
                    /\ visibilityState_' = "Visible"
                    /\ UNCHANGED pendingIC_
               [] visibilityState_ = "Visible" ->
                    UNCHANGED << visibilityState_, pendingIC_, debounceTimer_ >>
  /\ UNCHANGED hasClient
  /\ OthersUnchangedByFocus

\* MagicKeyboardEngine::handleFocusOut, called by the FocusOut watcher after
\* fcitx has taken the focus from the context.
handleFocusOutKeepsTimer(ic) ==
  /\ focusedICs' = WithoutIC(focusedICs, ic)
  /\ lastEvent' = [type |-> "FocusOut", ic |-> ic, pre |-> visibilityState_]
  /\ sentNow' = << >>
  /\ CASE visibilityState_ = "PendingShow" /\ pendingIC_ = ic ->
            /\ visibilityState_' = "Hidden"
            /\ pendingIC_' = "none"
            /\ UNCHANGED debounceTimer_
       [] visibilityState_ = "Visible" ->
            /\ visibilityState_' = "PendingHide"
            /\ debounceTimer_' = [target |-> "Hidden", delayMs |-> DEBOUNCE_HIDE_MS]
            /\ UNCHANGED pendingIC_
       [] OTHER -> UNCHANGED << visibilityState_, pendingIC_, debounceTimer_ >>
  /\ currentIC_' = IF currentIC_ = ic THEN "none" ELSE currentIC_
  /\ UNCHANGED << hasClient, rejectedSince >>
  /\ OthersUnchangedByFocus

handleFocusOut(ic) ==
  /\ focusedICs' = WithoutIC(focusedICs, ic)
  /\ lastEvent' = [type |-> "FocusOut", ic |-> ic, pre |-> visibilityState_]
  /\ sentNow' = << >>
  /\ CASE visibilityState_ = "PendingShow" /\ pendingIC_ = ic ->
            /\ debounceTimer_' = NoTimer
            /\ visibilityState_' = "Hidden"
            /\ pendingIC_' = "none"
       [] visibilityState_ = "Visible" ->
            /\ visibilityState_' = "PendingHide"
            /\ debounceTimer_' = [target |-> "Hidden", delayMs |-> DEBOUNCE_HIDE_MS]
            /\ UNCHANGED pendingIC_
       [] OTHER -> UNCHANGED << visibilityState_, pendingIC_, debounceTimer_ >>
  /\ currentIC_' = IF currentIC_ = ic THEN "none" ELSE currentIC_
  /\ UNCHANGED << hasClient, rejectedSince >>
  /\ OthersUnchangedByFocus

\* The debounce timer expires: executeTransition(target), that is
\* executeShow or executeHide.  The timer is one-shot.
DebounceExpires ==
  /\ debounceTimer_ # NoTimer
  /\ lastEvent' = [type |-> "debounce", ic |-> "none", pre |-> visibilityState_]
  /\ debounceTimer_' = NoTimer
  /\ IF debounceTimer_.target = "Visible" THEN executeShow ELSE executeHide
  /\ UNCHANGED << currentIC_, hasClient, focusedICs, rejectedSince >>
  /\ OthersUnchangedByFocus

\* The watchdog timer of startWatchdog expires.
WatchdogExpires ==
  /\ lastEvent' = [type |-> "watchdog", ic |-> "none", pre |-> visibilityState_]
  /\ IF /\ visibilityState_ \in { "Visible", "PendingHide" }
        /\ (lastFocusedInputContext = "none" \/ ~hasFocus(lastFocusedInputContext))
     THEN /\ debounceTimer_' = NoTimer
          /\ executeHide
     ELSE /\ sentNow' = << >>
          /\ UNCHANGED << visibilityState_, pendingIC_, debounceTimer_ >>
  /\ UNCHANGED << currentIC_, hasClient, focusedICs, rejectedSince >>
  /\ OthersUnchangedByFocus

\* A client connects to the socket (startSocketServer): a visible keyboard
\* is announced to it.
ClientConnects ==
  /\ hasClient' = TRUE
  /\ lastEvent' = [type |-> "connect", ic |-> "none", pre |-> visibilityState_]
  /\ sentNow' = IF visibilityState_ = "Visible" THEN << "show" >> ELSE << >>
  /\ UNCHANGED << visibilityState_, currentIC_, pendingIC_, debounceTimer_,
                  focusedICs, rejectedSince >>
  /\ OthersUnchangedByFocus

\* The last client disconnects.
ClientDisconnects ==
  /\ hasClient
  /\ hasClient' = FALSE
  /\ lastEvent' = [type |-> "disconnect", ic |-> "none", pre |-> visibilityState_]
  /\ sentNow' = << >>
  /\ UNCHANGED << visibilityState_, currentIC_, pendingIC_, debounceTimer_,
                  focusedICs, rejectedSince >>
  /\ OthersUnchangedByFocus

NextFocus ==
  \/ \E ic \in DOMAIN InputContexts :
       /\ ~hasFocus(ic)
       /\ Len(focusedICs) < MaxFocused
       /\ handleFocusIn(ic)
  \/ \E ic \in DOMAIN InputContexts : hasFocus(ic) /\ handleFocusOut(ic)
  \/ DebounceExpires
  \/ WatchdogExpires
  \/ ClientConnects
  \/ ClientDisconnects

SpecFocus == Init /\ [][NextFocus]_vars

\* The event loop runs a timer that is due: the debounce timer while it is
\* armed, the periodic watchdog always.
SpecFocusTimers ==
  /\ Init
  /\ [][NextFocus]_vars
  /\ WF_vars(DebounceExpires)
  /\ WF_vars(WatchdogExpires)

\* ---- MagicKeyboardEngine: candidate mode ----
\* MagicKeyboardEngine::activate and deactivate
activate(ic) ==
  /\ currentIC_' = ic
  /\ sentNow' = << >>
  /\ rk' = [op |-> "MagicKeyboardEngine::activate", ic |-> ic]
  /\ UNCHANGED << visibilityState_, pendingIC_, debounceTimer_, hasClient, focusedICs,
                  lastEvent, rejectedSince, loadedOk,
                  seVars, mkVars, ppVars, gaVars, udVars, lvVars, sdVars, mdVars, skVars, uiVars, trVars >>

deactivate ==
  /\ currentIC_' = "none"
  /\ sentNow' = << >>
  /\ rk' = [op |-> "MagicKeyboardEngine::deactivate"]
  /\ UNCHANGED << visibilityState_, pendingIC_, debounceTimer_, hasClient, focusedICs,
                  lastEvent, rejectedSince, loadedOk,
                  seVars, mkVars, ppVars, gaVars, udVars, lvVars, sdVars, mdVars, skVars, uiVars, trVars >>

\* The word of the top candidate, if there is one.
TopCandidate == IF currentCandidates_ = << >> THEN << >> ELSE << currentCandidates_[1].word >>

\* MagicKeyboardEngine::handleKeyPress: rk records the key, whether the
\* handler ran (there is a current input context) and the candidate word it
\* committed.
handleKeyPressKeepsList(key) ==
  /\ rk' = [op |-> "MagicKeyboardEngine::handleKeyPress", key |-> key,
            handled |-> currentIC_ # "none",
            committed |-> IF currentIC_ # "none" /\ candidateMode_ /\ key # "backspace"
                          THEN TopCandidate ELSE << >>]
  /\ IF currentIC_ # "none" /\ candidateMode_
     THEN /\ candidateMode_' = FALSE
          /\ currentCandidates_' = IF key = "backspace" THEN currentCandidates_ ELSE << >>
          /\ sentNow' = SendToUI("swipe_candidates")
     ELSE /\ sentNow' = << >>
          /\ UNCHANGED << candidateMode_, currentCandidates_ >>
  /\ UNCHANGED << mkDictionary_, mkBuckets_, mkDictLoaded, loadedOk,
                  visibilityState_, currentIC_, pendingIC_, debounceTimer_, hasClient,
                  focusedICs, lastEvent, rejectedSince,
                  seVars, mkVars, ppVars, gaVars, udVars, lvVars, sdVars, skVars, uiVars, trVars >>

handleKeyPress(key) ==
  /\ rk' = [op |-> "MagicKeyboardEngine::handleKeyPress", key |-> key,
            handled |-> currentIC_ # "none",
            committed |-> IF currentIC_ # "none" /\ candidateMode_ /\ key # "backspace"
                          THEN TopCandidate ELSE << >>]
  /\ IF currentIC_ # "none" /\ candidateMode_
     THEN \* space, backspace, enter and every other key leave candidate mode
          /\ candidateMode_' = FALSE
          /\ currentCandidates_' = << >>
          /\ sentNow' = SendToUI("swipe_candidates")
     ELSE /\ sentNow' = << >>
          /\ UNCHANGED << candidateMode_, currentCandidates_ >>
  /\ UNCHANGED << mkDictionary_, mkBuckets_, mkDictLoaded, loadedOk,
                  visibilityState_, currentIC_, pendingIC_, debounceTimer_, hasClient,
                  focusedICs, lastEvent, rejectedSince,
                  seVars, mkVars, ppVars, gaVars, udVars, lvVars, sdVars, skVars, uiVars, trVars >>

\* processLine, "type":"commit_candidate": the text is committed to the
\* focused input context, if there is one.
CommitCandidate(text) ==
  LET ic      == lastFocusedInputContext
      focused == ic # "none" /\ hasFocus(ic)
  IN  /\ rk' = [op |-> "commit_candidate", text |-> text, handled |-> focused]
      /\ IF focused
         THEN /\ candidateMode_' = FALSE
              /\ currentCandidates_' = << >>
              /\ sentNow' = SendToUI("swipe_candidates")
         ELSE /\ sentNow' = << >>
              /\ UNCHANGED << candidateMode_, currentCandidates_ >>
      /\ UNCHANGED << mkDictionary_, mkBuckets_, mkDictLoaded, loadedOk,
                      visibilityState_, currentIC_, pendingIC_, debounceTimer_, hasClient,
                      focusedICs, lastEvent, rejectedSince,
                      seVars, mkVars, ppVars, gaVars, udVars, lvVars, sdVars, skVars, uiVars, trVars >>

\* MagicKeyboardEngine::reset
MKreset ==
  /\ rk' = [op |-> "MagicKeyboardEngine::reset"]
  /\ candidateMode_' = FALSE
  /\ currentCandidates_' = << >>
  /\ sentNow' = SendToUI("swipe_candidates")
  /\ UNCHANGED << mkDictionary_, mkBuckets_, mkDictLoaded, loadedOk,
                  visibilityState_, currentIC_, pendingIC_, debounceTimer_, hasClient,
                  focusedICs, lastEvent, rejectedSince,
                  seVars, mkVars, ppVars, gaVars, udVars, lvVars, sdVars, skVars, uiVars, trVars >>

PressedKeys == { "space", "backspace", "enter", "a" }

CandidatePoints == { PtH, PtE }

NextCandidates ==
  \/ MKloadDictionary(WordsMixed, MissingFile)
  \/ \E p \in CandidatePoints : MKPushPoint(p)
  \/ MKProcessSwipePath
  \/ MKNextSwipe
  \/ activate("A")
  \/ deactivate
  \/ handleFocusIn("A") /\ ~hasFocus("A")
  \/ handleFocusOut("A") /\ hasFocus("A")
  \/ ClientConnects
  \/ \E key \in PressedKeys : handleKeyPress(key)
  \/ \E text \in { << "a" >> } : CommitCandidate(text)
  \/ MKreset

SpecCandidates == Init /\ [][NextCandidates]_vars

\* ------------------------------------------------------------------------
\* KeyboardBridge: backspace auto-repeat (ui/main.cpp)
\* ------------------------------------------------------------------------
OthersUnchangedByBridge ==
  UNCHANGED << seVars, mkVars, ppVars, gaVars, lvVars, sdVars, mdVars, skVars, rkVars,
               udVars, fvVars, trVars >>

\* The bound of the UI clock.
MaxUiTime == 500

\* The steps the clock advances by between two events of the UI thread.
ClockSteps == { 50, 100 }

\* KeyboardBridge::backspaceHoldBegin: one backspace at once, and a single-shot
\* timer of 250 ms that starts the repeat timer.
backspaceHoldBegin ==
  /\ IF backspaceHeld_
       THEN /\ uiSent' = << >>
            /\ UNCHANGED << backspaceHeld_, backspaceHoldElapsed_, singleShots >>
       ELSE /\ backspaceHeld_' = TRUE
            /\ backspaceHoldElapsed_' = uiNow
            /\ uiSent' = << "backspace" >>
            /\ singleShots' = singleShots \cup { uiNow + BACKSPACE_INITIAL_DELAY_MS }
  /\ uiLast' = "backspaceHoldBegin"
  /\ UNCHANGED << backspaceRepeatTimer_, uiNow >>
  /\ OthersUnchangedByBridge

\* KeyboardBridge::backspaceHoldEnd.
backspaceHoldEnd ==
  /\ backspaceHeld_' = FALSE
  /\ backspaceRepeatTimer_' = TimerStopped
  /\ uiSent' = << >>
  /\ uiLast' = "backspaceHoldEnd"
  /\ UNCHANGED << backspaceHoldElapsed_, singleShots, uiNow >>
  /\ OthersUnchangedByBridge

\* The lambda of QTimer::singleShot(250, ...) in backspaceHoldBegin; a timer
\* fires at its due time or later.
SingleShotFires(due) ==
  /\ due \in singleShots
  /\ uiNow >= due
  /\ singleShots' = singleShots \ { due }
  /\ backspaceRepeatTimer_' =
       IF backspaceHeld_ THEN uiNow + BACKSPACE_REPEAT_INTERVAL_MS
                         ELSE backspaceRepeatTimer_
  /\ uiSent' = << >>
  /\ uiLast' = "singleShot"
  /\ UNCHANGED << backspaceHeld_, backspaceHoldElapsed_, uiNow >>
  /\ OthersUnchangedByBridge

\* The timeout lambda of backspaceRepeatTimer_ (constructor).
RepeatTimerFires ==
  /\ backspaceRepeatTimer_ # TimerStopped
  /\ uiNow >= backspaceRepeatTimer_
  /\ IF ~backspaceHeld_
       THEN /\ backspaceRepeatTimer_' = TimerStopped
            /\ uiSent' = << >>
       ELSE /\ backspaceRepeatTimer_' = uiNow + BACKSPACE_REPEAT_INTERVAL_MS
            /\ uiSent' = << "backspace" >>
  /\ uiLast' = "repeat"
  /\ UNCHANGED << backspaceHeld_, backspaceHoldElapsed_, singleShots, uiNow >>
  /\ OthersUnchangedByBridge

\* Time passes on the UI thread.
UiClockAdvances(d) ==
  /\ uiNow + d <= MaxUiTime
  /\ uiNow' = uiNow + d
  /\ uiSent' = << >>
  /\ uiLast' = "clock"
  /\ UNCHANGED << backspaceHeld_, backspaceHoldElapsed_, backspaceRepeatTimer_,
                  singleShots >>
  /\ OthersUnchangedByBridge

NextBackspace ==
  \/ backspaceHoldBegin
  \/ backspaceHoldEnd
  \/ \E due \in singleShots : SingleShotFires(due)
  \/ RepeatTimerFires
  \/ \E d \in ClockSteps : UiClockAdvances(d)

SpecBackspace == Init /\ [][NextBackspace]_vars

\* C38: the repeat timer runs, and a repeated backspace is sent, only while
\* backspace is held and the current hold has lasted the initial delay of
\* 250 ms; nothing is sent by the repeat timer after backspaceHoldEnd.
C38_RepeatOnlyAfterInitialDelay ==
  /\ backspaceRepeatTimer_ # TimerStopped =>
       /\ backspaceHeld_
       /\ uiNow - backspaceHoldElapsed_ >= BACKSPACE_INITIAL_DELAY_MS
  /\ (uiLast = "repeat" /\ uiSent # << >>) =>
       /\ backspaceHeld_
       /\ uiNow - backspaceHoldElapsed_ >= BACKSPACE_INITIAL_DELAY_MS

\* The part of C38 that holds: when backspace is not held the repeat timer is
\* stopped and the repeat timer sends nothing.
C38_NoRepeatAfterHoldEnd ==
  ~backspaceHeld_ =>
    /\ backspaceRepeatTimer_ = TimerStopped
    /\ ~(uiLast = "repeat" /\ uiSent # << >>)

\* A repeated backspace is sent in a hold that has lasted less than 250 ms.
C38_EarlyRepeat ==
  /\ uiLast = "repeat"
  /\ uiSent = << "backspace" >>
  /\ backspaceHeld_
  /\ uiNow - backspaceHoldElapsed_ < BACKSPACE_INITIAL_DELAY_MS

\* A repeated backspace is sent in an uninterrupted hold of 250 ms or more.
C38_LateRepeat ==
  /\ uiLast = "repeat"
  /\ uiSent = << "backspace" >>
  /\ uiNow - backspaceHoldElapsed_ >= BACKSPACE_INITIAL_DELAY_MS

\* ------------------------------------------------------------------------
\* lexicon::Trie
\* ------------------------------------------------------------------------
OthersUnchangedByTrie ==
  UNCHANGED << seVars, mkVars, ppVars, gaVars, lvVars, sdVars, mdVars, skVars, rkVars,
               udVars, fvVars, uiVars >>

\* Trie::insert
Trieinsert(word, freq) ==
  /\ nodes_' = TrieInsertFrom(nodes_, 0, word, freq)
  /\ inserted' = inserted \cup { word }
  /\ trieCall' = [op |-> "insert", word |-> word, ret |-> FALSE]
  /\ OthersUnchangedByTrie

\* Trie::contains
Triecontains(word) ==
  /\ trieCall' = [op |-> "contains", word |-> word,
                  ret |-> TrieContainsFrom(nodes_, 0, word)]
  /\ UNCHANGED << nodes_, inserted >>
  /\ OthersUnchangedByTrie

\* Words of the trie's alphabet, and words with a capital or a hyphen.
TrieWords ==
  { << >>, << "a" >>, << "a", "b" >>, << "b" >>, << "a", "'" >>,
    << "A", "b" >>, << "a", "-", "b" >>, << "A" >> }

TrieFreqs == { 1, 2 }

NextTrie ==
  \/ \E word \in TrieWords, freq \in TrieFreqs : Trieinsert(word, freq)
  \/ \E word \in TrieWords : Triecontains(word)

SpecTrie == Init /\ [][NextTrie]_vars

\* C40: contains(w) returns true if and only if w is one of the strings
\* that were inserted.
C40_ContainsIffInserted ==
  trieCall.op = "contains" => (trieCall.ret <=> trieCall.word \in inserted)

\* What insert stores of a word: its characters that have an index.
TrieStored(word) == SelectSeq(word, LAMBDA c : charToIndex(c) # 0 - 1)

\* What holds instead: contains(w) is true exactly when every character of
\* w has an index and w is what insert stored of some inserted string.
C40_ContainsIffStored ==
  trieCall.op = "contains" =>
    (trieCall.ret <=>
       /\ TrieStored(trieCall.word) = trieCall.word
       /\ \E w \in inserted : TrieStored(w) = trieCall.word)

\* contains finds a string that was never inserted.
C40_FoundNotInserted ==
  /\ trieCall.op = "contains"
  /\ trieCall.ret
  /\ trieCall.word \notin inserted

\* contains misses a string that was inserted.
C40_InsertedNotFound ==
  /\ trieCall.op = "contains"
  /\ ~trieCall.ret
  /\ trieCall.word \in inserted

\* ------------------------------------------------------------------------
\* Properties of SwipeEngine::mapPathToSequence (specification Spec)
\* ------------------------------------------------------------------------
\* The nearest key of every sample of a path, as findBestKey gives it.
SampleKeys(keys, path) == [i \in 1..Len(path) |-> findBestKey(keys, path[i])]

SampleIds(keys, path) ==
  [i \in 1..Len(path) |-> keys[findBestKey(keys, path[i])].id]

AllInside(keys, path) ==
  \A i \in 1..Len(path) :
    /\ findBestKey(keys, path[i]) # 0
    /\ contains(keys[findBestKey(keys, path[i])].bounds, path[i])

OutOfTolerance(keys, p) ==
  \A k \in 1..Len(keys) :
    /\ ~contains(keys[k].bounds, p)
    /\ distanceSquaredTo(p, keys[k].center) > MAX_KEY_DISTANCE * MAX_KEY_DISTANCE

WithinTolerance(keys, p) ==
  \E k \in 1..Len(keys) :
    \/ contains(keys[k].bounds, p)
    \/ distanceSquaredTo(p, keys[k].center) <= MAX_KEY_DISTANCE * MAX_KEY_DISTANCE

\* C5 (as claimed): a path whose samples lie inside keys A..A, B..B, A..A
\* with two or more samples on B maps to A,B,A: B is kept.
C5_BounceKeepsDwelledKey ==
  (seCalled /\ keys_ # << >> /\ inPath # << >> /\ AllInside(keys_, inPath)) =>
    LET d == BuildDwells(SampleIds(keys_, inPath))
    IN  (Len(d) = 3 /\ d[1][1] = d[3][1] /\ d[2][2] >= MIN_DWELL_FOR_BOUNCE)
          => seSeq = << d[1][1], d[2][1], d[3][1] >>

\* C6 (as claimed): the current key changes at sample n only if the sample
\* is inside its nearest key, or that key wins decisively on distance, or
\* that key was also the nearest key of sample n-1.
C6_SwitchNeedsEvidence ==
  (seCalled /\ keys_ # << >>) =>
    \A n \in 1..Len(inPath) :
      LET before == SEScan(keys_, inPath, n - 1)
          after == SEScan(keys_, inPath, n)
          best == findBestKey(keys_, inPath[n])
      IN  (before.currentKey # 0 /\ after.currentKey # before.currentKey) =>
            \/ contains(keys_[best].bounds, inPath[n])
            \/ StrongDistanceWin(
                 distanceSquaredTo(inPath[n], keys_[before.currentKey].center),
                 distanceSquaredTo(inPath[n], keys_[best].center))
            \/ (n >= 2 /\ findBestKey(keys_, inPath[n - 1]) = best)

\* C8: the returned key sequence has no two equal adjacent identifiers.
C8_NoAdjacentDuplicates ==
  seCalled => \A i \in 1..(Len(seSeq) - 1) : seSeq[i] # seSeq[i + 1]

\* A call whose raw sequence was A,B,A: the bounce B is removed and the two
\* A's that become adjacent are collapsed.
C8_Witness ==
  /\ seCalled
  /\ keys_ # << >>
  /\ LET raw == SEScan(keys_, inPath, Len(inPath)).rawSequence
     IN  /\ Len(raw) = 3
         /\ raw[1] = raw[3]
         /\ seSeq = << raw[1] >>

\* C9: for a path whose samples all lie inside key rectangles and never
\* return to a key already left, the result is the keys of the samples with
\* each run of equal keys reduced to one entry; 4 samples inside q give
\* [q], and samples inside h,e,l,l,o give [h,e,l,o].
RunHeads(ids) == { i \in 1..Len(ids) : i = 1 \/ ids[i] # ids[i - 1] }

NoReturn(ids) ==
  \A i, j \in 1..Len(ids) :
    (i < j /\ ids[i] = ids[j]) => \A k \in i..j : ids[k] = ids[i]

C9_StraightPathKeys ==
  (seCalled /\ keys_ # << >> /\ inPath # << >> /\ AllInside(keys_, inPath)
     /\ NoReturn(SampleIds(keys_, inPath))) =>
    LET ids == SampleIds(keys_, inPath)
        heads == RunHeads(ids)
    IN  /\ Len(seSeq) = Cardinality(heads)
        /\ \A i \in heads : seSeq[Cardinality({ j \in heads : j <= i })] = ids[i]
        /\ (inPath = << PtQ, PtQ, PtQ, PtQ >> => seSeq = << "q" >>)
        /\ (inPath = << PtH, PtE, PtL, PtL, PtO >> => seSeq = << "h", "e", "l", "o" >>)

C9_Witness ==
  /\ seCalled
  /\ keys_ # << >>
  /\ inPath = << PtH, PtE, PtL, PtL, PtO >>
  /\ seSeq = << "h", "e", "l", "o" >>

\* C10: an empty path and a path with every point out of tolerance map to
\* the empty sequence; a single point within tolerance of some key maps to
\* exactly one key.
C10_DegeneratePaths ==
  seCalled =>
    /\ (inPath = << >> => seSeq = << >>)
    /\ ((\A i \in 1..Len(inPath) : OutOfTolerance(keys_, inPath[i])) => seSeq = << >>)
    /\ ((Len(inPath) = 1 /\ WithinTolerance(keys_, inPath[1])) => Len(seSeq) = 1)

C10_Witness ==
  /\ seCalled
  /\ keys_ # << >>
  /\ Len(inPath) >= 2
  /\ \A i \in 1..Len(inPath) : OutOfTolerance(keys_, inPath[i])
  /\ seSeq = << >>

\* ------------------------------------------------------------------------
\* Properties of MagicKeyboardEngine::mapPathToSequence (SpecMK) and of the
\* post-processing step (SpecPost)
\* ------------------------------------------------------------------------
\* C1 (as claimed): the sequence returned for a path is the one a fresh
\* engine returns for it, whatever calls came before.
C1_HistoryIndependent ==
  mkCalled => mkSeq = MKMapPathToSequence(MKLayout, mkPath, NullStatics).seq

\* C7 (as claimed): post-processing an already post-processed sequence
\* returns it unchanged.
C7_PostProcessIdempotent ==
  ppStage = 2 => ppOut2 = ppOut1

\* ------------------------------------------------------------------------
\* Properties of GestureAgent (SpecGesture)
\* ------------------------------------------------------------------------
\* C2: while every pointer-move of a gesture stays within the deadzone
\* radius of the pointer-down position, whatever the timestamps, the agent
\* is never Swiping, and the pointer-up hands no swipe result to a callback
\* and hands one tap result to the registered tap callback.
C2_TapWithinDeadzone ==
  /\ state_ = "Swiping" => ~allWithin
  /\ (lastCall.type = "up" /\ lastCall.pre # "Idle" /\ allWithin) =>
       /\ \A i \in 1..Len(emitted) : emitted[i].kind # "swipe"
       /\ onTap_ => (Len(emitted) = 1 /\ emitted[1].kind = "tap")

\* A gesture with a move inside the deadzone, released after more than the
\* time threshold.
C2_Witness ==
  /\ lastCall.type = "up"
  /\ lastCall.pre = "TapPending"
  /\ allWithin
  /\ moves >= 1
  /\ lastCall.timestamp - startTime_ > timeThresholdMs
  /\ Len(emitted) = 1
  /\ emitted[1].kind = "tap"
  /\ emitted[1].keyId = "q"

\* C3: TapPending is left for Swiping only by a pointer-move whose distance
\* from the pointer-down position exceeds the deadzone radius and whose
\* time since pointer-down exceeds the threshold; a pointer-move with only
\* one of the two leaves the state TapPending and the path empty.
C3_BothConditionsRequired ==
  /\ (lastCall.pre = "TapPending" /\ lastCall.type \notin { "move" }) => state_ # "Swiping"
  /\ (lastCall.type = "move" /\ lastCall.pre = "TapPending") =>
       LET far == distanceSquaredTo(startPosWindow_, lastCall.window)
                    > deadzoneRadius * deadzoneRadius
           late == lastCall.timestamp - startTime_ > timeThresholdMs
       IN  /\ state_ = "Swiping" => (far /\ late)
           /\ ~(far /\ late) => (state_ = "TapPending" /\ path_ = << >>)

\* A move beyond the deadzone that comes too early.
C3_Witness ==
  /\ lastCall.type = "move"
  /\ lastCall.pre = "TapPending"
  /\ distanceSquaredTo(startPosWindow_, lastCall.window) > deadzoneRadius * deadzoneRadius
  /\ lastCall.timestamp - startTime_ <= timeThresholdMs
  /\ state_ = "TapPending"
  /\ path_ = << >>

\* C4: with both callbacks registered, the pointer-up that ends a gesture
\* leaves exactly one result (a tap or a swipe) for that gesture and the
\* agent Idle.
C4_ExactlyOneResult ==
  (lastCall.type = "up" /\ lastCall.pre \in { "TapPending", "Swiping" }
     /\ onTap_ /\ onSwipe_) =>
    /\ Len(emitted) = 1
    /\ emitted[1].kind \in { "tap", "swipe" }
    /\ state_ = "Idle"

\* A swipe with two or more moves, ended by pointer-up.
C4_Witness ==
  /\ lastCall.type = "up"
  /\ lastCall.pre = "Swiping"
  /\ onTap_
  /\ onSwipe_
  /\ moves >= 2
  /\ Len(emitted) = 1
  /\ emitted[1].kind = "swipe"
  /\ state_ = "Idle"

\* ------------------------------------------------------------------------
\* Properties of levenshtein (specification SpecLev)
\* ------------------------------------------------------------------------
\* The edit distance of two strings, letter case ignored: the least number
\* of insertions, deletions and substitutions that turn a into b.
RECURSIVE EditDistance(_, _)
EditDistance(a, b) ==
  IF a = << >> THEN Len(b)
  ELSE IF b = << >> THEN Len(a)
  ELSE IF tolower(Head(a)) = tolower(Head(b))
       THEN EditDistance(Tail(a), Tail(b))
       ELSE 1 + Min2(Min2(EditDistance(Tail(a), b), EditDistance(a, Tail(b))),
                     EditDistance(Tail(a), Tail(b)))

BoundedDistance(a, b, limit) ==
  IF EditDistance(a, b) > limit THEN limit + 1 ELSE EditDistance(a, b)

\* C11 (as claimed): levenshtein(a, b, limit) returns limit + 1 whenever
\* the case-insensitive edit distance of a and b exceeds limit, and the
\* exact distance otherwise, in SwipeEngine and in MagicKeyboardEngine.
C11_BoundedLevenshtein ==
  levCalled =>
    /\ levOut = BoundedDistance(levS1, levS2, levLimit)
    /\ mkLevOut = BoundedDistance(levS1, levS2, levLimit)

\* ------------------------------------------------------------------------
\* Properties of getShortlist (specification SpecShortlist)
\* ------------------------------------------------------------------------
\* The dictionary a getShortlist call of rk was made on.
ShortlistDictionary ==
  IF rk.op = "SwipeEngine::getShortlist" THEN dictionary_ ELSE mkDictionary_

\* C12: every word index getShortlist(keys) returns has a lowercase first
\* letter equal to the lowercase first char of keys, a lowercase last
\* letter equal to that of the last char of keys, and a length within 3 of
\* the length of keys (SwipeEngine and MagicKeyboardEngine).
C12_ShortlistFilter ==
  rk.op \in { "SwipeEngine::getShortlist", "MagicKeyboardEngine::getShortlist" } =>
    \A n \in 1..Len(rk.ret) :
      LET word == ShortlistDictionary[rk.ret[n] + 1].word
      IN  /\ tolower(word[1]) = tolower(rk.keys[1])
          /\ tolower(word[Len(word)]) = tolower(rk.keys[Len(rk.keys)])
          /\ Len(word) - Len(rk.keys) <= 3
          /\ Len(rk.keys) - Len(word) <= 3

\* A call with keys "he" on a dictionary that holds "he" and "hole" (both
\* returned) and "hellhole" (same bucket, six chars longer, left out).
C12_Witness ==
  /\ rk.op = "SwipeEngine::getShortlist"
  /\ rk.keys = he
  /\ Len(rk.ret) >= 2
  /\ \E i \in 1..Len(dictionary_) :
       /\ dictionary_[i].word = hellhole
       /\ \A n \in 1..Len(rk.ret) : rk.ret[n] # i - 1

\* ------------------------------------------------------------------------
\* Properties of the rankers (specification SpecRank)
\* ------------------------------------------------------------------------
NonIncreasing(cands) ==
  \A i \in 1..(Len(cands) - 1) : cands[i].score >= cands[i + 1].score

\* C13: every candidate list SwipeEngine::generateCandidates or
\* Shark2Engine::recognize returns has non-increasing scores and at most
\* as many entries as the cap: 8 for generateCandidates, maxCandidates for
\* recognize.
C13_SortedAndCapped ==
  /\ rk.op = "SwipeEngine::generateCandidates" =>
       NonIncreasing(rk.ret) /\ Len(rk.ret) <= 8
  /\ rk.op = "Shark2Engine::recognize" =>
       NonIncreasing(rk.ret) /\ Len(rk.ret) <= rk.maxCandidates

\* C13, amended: the scores are non-increasing, generateCandidates returns
\* at most 8 entries, and recognize returns at most maxCandidates entries
\* when maxCandidates is not negative.
C13_SortedAndCappedFrom0 ==
  /\ rk.op = "SwipeEngine::generateCandidates" =>
       NonIncreasing(rk.ret) /\ Len(rk.ret) <= 8
  /\ rk.op = "Shark2Engine::recognize" =>
       /\ NonIncreasing(rk.ret)
       /\ rk.maxCandidates >= 0 => Len(rk.ret) <= rk.maxCandidates

\* generateCandidates has cut a list of more than 8 candidates of unequal
\* scores down to 8.
C13_WitnessSwipe ==
  /\ rk.op = "SwipeEngine::generateCandidates"
  /\ Len(rk.shortlist) > 8
  /\ Len(rk.ret) = 8
  /\ rk.ret[1].score > rk.ret[8].score

\* recognize has cut its results down to maxCandidates = 2 entries of
\* unequal scores.
C13_WitnessShark ==
  /\ rk.op = "Shark2Engine::recognize"
  /\ rk.maxCandidates = 2
  /\ Len(rk.ret) = 2
  /\ rk.ret[1].score > rk.ret[2].score

\* ------------------------------------------------------------------------
\* Properties of candidate generation from short key sequences
\* ------------------------------------------------------------------------
\* C14: a key sequence shorter than 2 yields an empty candidate list,
\* whatever the dictionary holds, from SwipeEngine::generateCandidates and
\* from the MagicKeyboardEngine handler of swipe_path messages.
C14_ShortSequenceNoCandidates ==
  /\ (rk.op = "SwipeEngine::generateCandidates" /\ Len(rk.keys) < 2) => rk.ret = << >>
  /\ (mkCalled /\ Len(JoinKeys(mkSeq)) < 2) => currentCandidates_ = << >>

\* The part of C14 about SwipeEngine, which holds (specification SpecDict).
C14_SwipeEngineShortSequence ==
  (rk.op = "SwipeEngine::generateCandidates" /\ Len(rk.keys) < 2) => rk.ret = << >>

\* SwipeEngine::generateCandidates has been called with one key on a
\* dictionary that holds a word starting and ending with it.
C14_SwipeEngineWitness ==
  /\ rk.op = "SwipeEngine::generateCandidates"
  /\ Len(rk.keys) = 1
  /\ getShortlist(dictionary_, buckets_, rk.keys) # << >>

\* ------------------------------------------------------------------------
\* Properties of SwipeEngine::generateCandidates (specification SpecDict)
\* ------------------------------------------------------------------------
\* The position of a dictionary index in a shortlist.
PositionIn(shortlist, idx) == CHOOSE i \in 1..Len(shortlist) : shortlist[i] = idx

\* C15: in the list generateCandidates returns, candidates of equal score
\* are in the order of their words in the shortlist.
C15_TiesKeepShortlistOrder ==
  rk.op = "SwipeEngine::generateCandidates" =>
    \A i, j \in 1..Len(rk.ret) :
      (i < j /\ rk.ret[i].score = rk.ret[j].score) =>
        PositionIn(rk.shortlist, rk.ret[i].idx) < PositionIn(rk.shortlist, rk.ret[j].idx)

\* x < y for two uint32_t kept as the ints of the same bits: a negative
\* int stands for a value of 2^31 or more.
UnsignedLess(x, y) ==
  IF (x < 0) = (y < 0) THEN x < y ELSE y < 0

\* a is more common than b: its frequency rank is lower.
MoreCommon(a, b) == UnsignedLess(a.freq, b.freq)

\* The number of distinct adjacent pairs of a key sequence.
DistinctPairs(keys) ==
  Cardinality({ << keys[i], keys[i + 1] >> : i \in 1..(Len(keys) - 1) })

\* C16: when the key sequence is a word of the dictionary, of length 2 or
\* more, and no word of its shortlist is more common, generateCandidates
\* returns that word first, with edit distance 0 and a bigram overlap
\* equal to the number of distinct adjacent pairs of the key sequence.
C16_ExactMatchFirst ==
  (rk.op = "SwipeEngine::generateCandidates" /\ Len(rk.keys) >= 2) =>
    \A p \in 1..Len(rk.shortlist) :
      LET w == dictionary_[rk.shortlist[p] + 1]
      IN  (/\ w.word = rk.keys
           /\ \A q \in 1..Len(rk.shortlist) :
                ~MoreCommon(dictionary_[rk.shortlist[q] + 1], w)) =>
            /\ rk.ret # << >>
            /\ rk.ret[1].word = rk.keys
            /\ rk.ret[1].editDistance = 0
            /\ rk.ret[1].bigramOverlap = DistinctPairs(rk.keys)

\* C16 with the first place left to any spelling of the word that differs
\* in case only; violated as well, by a word of frequency rank 2^32 - 1.
C16_ExactMatchFirstAnyCase ==
  (rk.op = "SwipeEngine::generateCandidates" /\ Len(rk.keys) >= 2) =>
    \A p \in 1..Len(rk.shortlist) :
      LET w == dictionary_[rk.shortlist[p] + 1]
      IN  (/\ w.word = rk.keys
           /\ \A q \in 1..Len(rk.shortlist) :
                ~MoreCommon(dictionary_[rk.shortlist[q] + 1], w)) =>
            /\ rk.ret # << >>
            /\ ToLowerString(rk.ret[1].word) = ToLowerString(rk.keys)

\* ------------------------------------------------------------------------
\* Properties of the loads
\* ------------------------------------------------------------------------
\* C17: a load of SwipeEngine that fails for a missing file (loadLayout,
\* loadDictionary) returns false and leaves keys_, dictionary_ and buckets_
\* as they were before the call.
C17_FailedLoadChangesNothing ==
  [][ /\ loadLayout(FALSE) => keys_' = keys_
      /\ (\E d \in DictionaryFiles : ~d[1].open /\ loadDictionary(d[1], d[2])) =>
           /\ rk'.ret = FALSE
           /\ dictionary_' = dictionary_
           /\ buckets_' = buckets_ ]_vars

\* The part of C17 that holds: the failing loadDictionary returns false.
C17_FailedLoadReturnsFalse ==
  [][ (\E d \in DictionaryFiles : ~d[1].open /\ loadDictionary(d[1], d[2])) =>
        rk'.ret = FALSE ]_vars

\* ------------------------------------------------------------------------
\* Properties of recognition on an engine nothing was loaded into
\* (specification SpecRecognition)
\* ------------------------------------------------------------------------
\* C18: as long as no load of the engine has succeeded, mapPathToSequence
\* returns the empty sequence, generateCandidates and recognize return the
\* empty list, and the call leaves the engine's layout and dictionary as
\* they were.
C18_UnloadedCallsReturnEmpty ==
  [][ /\ ( /\ "SwipeEngine" \notin loadedOk
           /\ rk' # rk
           /\ rk'.op \in { "SwipeEngine::mapPathToSequence",
                            "SwipeEngine::generateCandidates" } ) =>
           /\ rk'.ret = << >>
           /\ UNCHANGED << keys_, dictionary_, buckets_ >>
      /\ ( /\ "Shark2Engine" \notin loadedOk
           /\ rk' # rk
           /\ rk'.op = "Shark2Engine::recognize" ) =>
           /\ rk'.ret = << >>
           /\ UNCHANGED << templates_, skBuckets_ >> ]_vars

\* recognize has been called, with a stroke that has a common word in
\* reach, on an engine whose loads have all failed.
C18_Witness ==
  /\ rk.op = "Shark2Engine::recognize"
  /\ "Shark2Engine" \notin loadedOk
  /\ rk.inputPoints.size >= 2
  /\ QuickMatchWords(rk.inputPoints.front, rk.inputPoints.back, 1) # << >>
  /\ rk.ret = << >>

\* mapPathToSequence has been called with a path of three points on an
\* engine whose loads have all failed.
C18_WitnessSwipe ==
  /\ rk.op = "SwipeEngine::mapPathToSequence"
  /\ "SwipeEngine" \notin loadedOk
  /\ Len(rk.path) = 3
  /\ rk.ret = << >>

\* ------------------------------------------------------------------------
\* Properties of the loaded dictionaries (specification SpecLoad)
\* ------------------------------------------------------------------------
\* A DictWord of letters only whose first and last fields are the
\* lowercase letters of its first and last char.
IsLowerLetter(c) == CharMinusA(c) \in 0..25

WellFormedEntry(dw) ==
  /\ AllAlpha(dw.word)
  /\ IsLowerLetter(dw.first) /\ dw.first = tolower(dw.word[1])
  /\ IsLowerLetter(dw.last) /\ dw.last = tolower(dw.word[Len(dw.word)])

WellFormedTemplate(tmpl) ==
  /\ AllAlpha(tmpl.word)
  /\ IsLowerLetter(tmpl.firstChar) /\ tmpl.firstChar = tolower(tmpl.word[1])
  /\ IsLowerLetter(tmpl.lastChar) /\ tmpl.lastChar = tolower(tmpl.word[Len(tmpl.word)])

\* C19: after any load, no entry of the dictionary of SwipeEngine, of
\* MagicKeyboardEngine or of Shark2Engine has a char that is not a letter,
\* and the first and last fields of every entry are the lowercase letters
\* of the first and last char of its word.
C19_EntriesAlphabetic ==
  /\ \A i \in 1..Len(dictionary_) : WellFormedEntry(dictionary_[i])
  /\ \A i \in 1..Len(mkDictionary_) : WellFormedEntry(mkDictionary_[i])
  /\ \A i \in 1..Len(templates_) : WellFormedTemplate(templates_[i])

\* The part of C19 about SwipeEngine and Shark2Engine, which holds.
C19_SwipeAndSharkEntries ==
  /\ \A i \in 1..Len(dictionary_) : WellFormedEntry(dictionary_[i])
  /\ \A i \in 1..Len(templates_) : WellFormedTemplate(templates_[i])

\* Both engines hold words loaded from files with lines that are not
\* all letters.
C19_SwipeAndSharkWitness ==
  /\ rk.op = "Shark2Engine::loadDictionary" /\ rk.file = SkWords
  /\ Len(templates_) = 4
  /\ Len(dictionary_) = 6

\* bucket lists, each once, the indices (from 0) of the entries of dict
\* that Belongs holds for.
ListsExactly(bucket, dict, Belongs(_)) ==
  /\ \A i, j \in 1..Len(bucket) : i # j => bucket[i] # bucket[j]
  /\ { bucket[i] : i \in 1..Len(bucket) } = { i - 1 : i \in { k \in 1..Len(dict) : Belongs(dict[k]) } }

BucketsExact ==
  \A f, l \in 0..25 :
    /\ LET InBucket(dw) == CharMinusA(tolower(dw.word[1])) = f
                             /\ CharMinusA(tolower(dw.word[Len(dw.word)])) = l
       IN  ListsExactly(BucketAt(buckets_, f, l), dictionary_, InBucket)
    /\ LET InBucket(tmpl) == CharMinusA(tolower(tmpl.word[1])) = f
                               /\ CharMinusA(tolower(tmpl.word[Len(tmpl.word)])) = l
       IN  ListsExactly(BucketAt(skBuckets_, f, l), templates_, InBucket)

\* A load repeated right after itself with the same arguments (the step
\* records the call that is already the last one recorded) leaves the
\* dictionary and the buckets as the first load left them.
RepeatedLoadChangesNothing ==
  /\ ( /\ rk.op = "SwipeEngine::loadDictionary"
       /\ rk'.op = rk.op
       /\ rk' = rk ) =>
       UNCHANGED << dictionary_, buckets_ >>
  /\ ( /\ rk.op \in { "Shark2Engine::loadDictionary",
                       "Shark2Engine::loadDictionaryWithFrequency" }
       /\ rk'.op = rk.op
       /\ rk' = rk ) =>
       UNCHANGED << templates_, skBuckets_ >>

\* C20: loading the same word list twice in succession leaves the engine
\* as loading it once does, and after any sequence of loads every bucket
\* (f, l) lists exactly the indices of the words of the dictionary whose
\* first letter is f and last letter is l, each index once (SwipeEngine
\* and Shark2Engine).
C20_LoadIdempotentBucketsExact ==
  []BucketsExact /\ [][RepeatedLoadChangesNothing]_vars

\* A second, different, file has been loaded into SwipeEngine over a
\* first one, and the dictionary holds words of several buckets.
C20_Witness ==
  /\ rk.op = "SwipeEngine::loadDictionary"
  /\ rk.words = WordsMixed
  /\ Len(dictionary_) = 6
  /\ "Shark2Engine" \in loadedOk
  /\ Cardinality(DOMAIN buckets_) >= 3

\* ------------------------------------------------------------------------
\* Properties of the accumulated path (GestureAgent)
\* ------------------------------------------------------------------------
SampleGapSq(path, i) == distanceSquaredTo(path[i].window, path[i - 1].window)

ResampleSq == config_.resampleDistance * config_.resampleDistance

\* C21: while Swiping a smoothed sample is appended only if its distance from
\* the last accepted sample exceeds the resample distance, so in every
\* emitted swipe path each sample other than the first and the final
\* pointer-up sample is more than the resample distance from its predecessor.
C21_SamplesExceedResampleDistance ==
  /\ state_ = "Swiping" =>
       \A i \in 2..Len(path_) : SampleGapSq(path_, i) > ResampleSq
  /\ \A e \in 1..Len(emitted) :
       emitted[e].kind = "swipe" =>
         \A i \in 2..(Len(emitted[e].path) - 1) :
           SampleGapSq(emitted[e].path, i) > ResampleSq

\* C21 as amended: the samples are at least the resample distance apart.
C21_SamplesAtLeastResampleDistance ==
  /\ state_ = "Swiping" =>
       \A i \in 2..Len(path_) : SampleGapSq(path_, i) >= ResampleSq
  /\ \A e \in 1..Len(emitted) :
       emitted[e].kind = "swipe" =>
         \A i \in 2..(Len(emitted[e].path) - 1) :
           SampleGapSq(emitted[e].path, i) >= ResampleSq

\* An emitted swipe of four samples whose third sample lies exactly the
\* resample distance from the second.
C21_Witness ==
  /\ lastCall.type = "up"
  /\ lastCall.pre = "Swiping"
  /\ Len(emitted) = 1
  /\ emitted[1].kind = "swipe"
  /\ Len(emitted[1].path) = 4
  /\ SampleGapSq(emitted[1].path, 3) = ResampleSq

\* C22: the accumulated path is cleared on gesture completion and on reset:
\* whenever the agent is Idle (after construction, a pointer-up or a reset),
\* currentPath() is empty.
C22_IdlePathEmpty == state_ = "Idle" => path_ = << >>

\* C23: reset() called in any state (Idle, TapPending or Swiping) leaves the
\* classifier Idle with an empty path and cleared hysteresis state and
\* invokes no callback; the pointer-moves and pointer-ups that follow it,
\* up to the next pointer-down, leave it Idle and invoke no callback either.
C23_ResetAbandonsGesture ==
  [][ /\ lastCall'.type = "reset" =>
           /\ state_' = "Idle"
           /\ path_' = << >>
           /\ hysteresis_' = NullStatics
           /\ emitted' = emitted
      /\ (state_ = "Idle" /\ lastCall'.type \in { "move", "up" }) =>
           /\ state_' = "Idle"
           /\ emitted' = emitted ]_vars

\* A reset that abandons a swipe in progress, both callbacks registered.
C23_Witness ==
  /\ lastCall.type = "reset"
  /\ lastCall.pre = "Swiping"
  /\ onTap_
  /\ onSwipe_
  /\ moves >= 1
  /\ state_ = "Idle"
  /\ path_ = << >>
  /\ emitted = << >>

\* ------------------------------------------------------------------------
\* Properties of Shark2Engine::recognize's merge and of the templates
\* ------------------------------------------------------------------------
\* C24: Shark2Engine::recognize never returns the same word twice (a quick
\* match for a common word that also has a scored result is merged into
\* that entry).
C24_NoWordTwice ==
  rk.op = "Shark2Engine::recognize" =>
    \A i, j \in 1..Len(rk.ret) : i # j => rk.ret[i].word # rk.ret[j].word

\* The key centres of the letters of a word that have a valid key, as
\* keyCenters_ holds them now.
CurrentCenters(word) ==
  SelectSeq([i \in 1..Len(word) |-> getKeyCenter(word[i])], ValidKey)

\* C25: after any sequence of dictionary loads and key-centre changes every
\* stored template's raw points, start point and end point equal the
\* current key centres of the letters of its word.
C25_TemplatesFollowLayout ==
  \A i \in 1..Len(templates_) :
    LET tmpl == templates_[i]
        now_ == CurrentCenters(tmpl.word)
    IN  /\ tmpl.rawPoints = now_
        /\ now_ # << >> => /\ tmpl.startPoint = now_[1]
                           /\ tmpl.endPoint = now_[Len(now_)]

\* ------------------------------------------------------------------------
\* Properties of UserDataManager (specification SpecUserData)
\* ------------------------------------------------------------------------
\* C26: if learned.dat has a wrong magic header, an unknown version or is
\* truncated, load still returns true and every getLearningBoost after it
\* returns 0 until a new commit is recorded.
C26_CorruptFileZeroBoost ==
  /\ rk.op = "UserDataManager::load" => rk.ret = TRUE
  /\ (rk.op = "UserDataManager::getLearningBoost" /\ corruptSinceLoad) => rk.ret = 0

\* C27: after a FocusIn for an input context that shouldShowKeyboard
\* rejects, and until a FocusIn for a showable context, the keyboard is not
\* Visible and no show message is sent.
C27_RejectedContextNeverShown ==
  rejectedSince => visibilityState_ # "Visible" /\ sentNow # << "show" >>

\* C28: while the context that last received FocusIn is showable and keeps
\* the focus, the FocusOut of another context leaves a Visible keyboard
\* Visible, and no timer sends a hide message.
CurrentKeepsFocus ==
  /\ currentIC_ # "none"
  /\ hasFocus(currentIC_)
  /\ shouldShowKeyboard(currentIC_)

C28_FocusOutOfOtherContextKeepsVisible ==
  [][ /\ ( /\ CurrentKeepsFocus
           /\ visibilityState_ = "Visible"
           /\ lastEvent'.type = "FocusOut"
           /\ lastEvent'.ic # currentIC_ )
         => visibilityState_' = "Visible" /\ sentNow' = << >>
      /\ ( /\ CurrentKeepsFocus
           /\ lastEvent'.type \in { "debounce", "watchdog" } )
         => sentNow' # << "hide" >> ]_vars

\* C29: a FocusOut for the pending input context in PendingShow returns to
\* Hidden with the debounce timer cancelled and sends nothing; no timer is
\* armed while Hidden, and a show message is only sent by the show debounce
\* expiring in PendingShow or to a client connecting to a Visible keyboard.
C29_FocusOutCancelsPendingShow ==
  /\ [][ /\ ( /\ visibilityState_ = "PendingShow"
              /\ lastEvent'.type = "FocusOut"
              /\ lastEvent'.ic = pendingIC_ )
            => /\ visibilityState_' = "Hidden"
               /\ debounceTimer_' = NoTimer
               /\ sentNow' = << >>
         /\ sentNow' = << "show" >>
            => \/ lastEvent'.type = "debounce" /\ visibilityState_ = "PendingShow"
               \/ lastEvent'.type = "connect" /\ visibilityState_ = "Visible" ]_vars
  /\ [](visibilityState_ = "Hidden" => debounceTimer_ = NoTimer)

C29_Witness ==
  /\ lastEvent.type = "FocusOut"
  /\ lastEvent.pre = "PendingShow"
  /\ visibilityState_ = "Hidden"
  /\ debounceTimer_ = NoTimer
  /\ hasClient
  /\ focusedICs # << >>

\* C30: a FocusIn for a showable input context in PendingHide returns to
\* Visible with the hide timer cancelled and sends neither hide nor show;
\* no timer is armed while Visible, so the cancelled hide never fires.
C30_FocusInCancelsPendingHide ==
  /\ [][ ( /\ visibilityState_ = "PendingHide"
           /\ lastEvent'.type = "FocusIn"
           /\ shouldShowKeyboard(lastEvent'.ic) )
         => /\ visibilityState_' = "Visible"
            /\ debounceTimer_' = NoTimer
            /\ currentIC_' = lastEvent'.ic
            /\ sentNow' = << >> ]_vars
  /\ [](visibilityState_ = "Visible" => debounceTimer_ = NoTimer)

C30_Witness ==
  /\ lastEvent.type = "FocusIn"
  /\ lastEvent.pre = "PendingHide"
  /\ visibilityState_ = "Visible"
  /\ debounceTimer_ = NoTimer
  /\ hasClient


C32_CandidateModeIffCandidates ==
  candidateMode_ <=> currentCandidates_ # << >>

C32_Witness ==
  /\ rk.op = "MagicKeyboardEngine::handleKeyPress"
  /\ rk.key = "backspace"
  /\ rk.handled
  /\ mkCalled
  /\ Len(mkSeq) >= 1
  /\ sentNow = << "swipe_candidates" >>
  /\ ~candidateMode_
  /\ currentCandidates_ = << >>

C32_WitnessCandidates ==
  /\ candidateMode_
  /\ Len(currentCandidates_) >= 2

\* A swipe that crossed keys and produced no candidate leaves candidate mode off.
C32_WitnessNoCandidates ==
  /\ mkCalled
  /\ Len(mkSeq) >= 2
  /\ ~candidateMode_
  /\ currentCandidates_ = << >>
  /\ rk.op # "MagicKeyboardEngine::handleKeyPress"
  /\ rk.op # "MagicKeyboardEngine::reset"
  /\ rk.op # "commit_candidate"

\* C33: a pointer-down in TapPending or Swiping discards the accumulated
\* path and starts a new gesture in TapPending with the new start position
\* and time, invoking no callback; every result emitted afterwards is a
\* result of the new gesture: a tap at the new start position, or a swipe
\* whose path starts with the new start sample.
EmittedForCurrentGesture(result) ==
  IF result.kind = "tap"
  THEN result.position = startPosLayout_
  ELSE /\ result.path[1].window = startPosWindow_
       /\ result.path[1].layout = startPosLayout_
       /\ \A i \in DOMAIN result.path : result.path[i].timestamp >= startTime_
       /\ result.durationMs = result.path[Len(result.path)].timestamp - startTime_

C33_PointerDownAbandonsGesture ==
  /\ [][ (lastCall'.type = "down" /\ state_ \in { "TapPending", "Swiping" }) =>
           /\ state_' = "TapPending"
           /\ path_' = << >>
           /\ emitted' = << >>
           /\ startPosWindow_' = lastCall'.window
           /\ startTime_' = lastCall'.timestamp ]_vars
  /\ [](\A i \in DOMAIN emitted : EmittedForCurrentGesture(emitted[i]))

\* A pointer-down that abandons a swipe in progress, both callbacks registered.
C33_Witness ==
  /\ lastCall.type = "down"
  /\ lastCall.pre = "Swiping"
  /\ onTap_
  /\ onSwipe_
  /\ state_ = "TapPending"
  /\ path_ = << >>
  /\ startTime_ = now
  /\ emitted = << >>

\* A swipe is emitted for the gesture that followed an abandoned one.
C33_WitnessSwipeAfter ==
  /\ lastCall.type = "up"
  /\ lastCall.pre = "Swiping"
  /\ Len(emitted) = 1
  /\ emitted[1].kind = "swipe"
  /\ startTime_ > 20

\* ------------------------------------------------------------------------
\* Properties of the extractors' results
\* ------------------------------------------------------------------------
\* a is a subsequence of b.
RECURSIVE IsSubsequence(_, _)
IsSubsequence(a, b) ==
  IF a = << >> THEN TRUE
  ELSE IF b = << >> THEN FALSE
  ELSE IF Head(a) = Head(b) THEN IsSubsequence(Tail(a), Tail(b))
  ELSE IsSubsequence(a, Tail(b))

\* The ids of the nearest keys of the path points that map to a key.
RECURSIVE SENearestKeySequence(_, _)
SENearestKeySequence(keys, path) ==
  IF path = << >> THEN << >>
  ELSE LET k == findBestKey(keys, Head(path))
       IN  (IF k = 0 THEN << >> ELSE << keys[k].id >>)
           \o SENearestKeySequence(keys, Tail(path))

RECURSIVE GANearestKeySequence(_, _)
GANearestKeySequence(keys, path) ==
  IF path = << >> THEN << >>
  ELSE LET k == findNearestKey(keys, Head(path).layout)
       IN  (IF k = 0 THEN << >> ELSE << keys[k].id >>)
           \o GANearestKeySequence(keys, Tail(path))

\* seq is empty exactly when nearest is; otherwise it is a subsequence of
\* nearest that starts with nearest's first key and ends with lastAccepted.
ExtractsEnds(seq, nearest, lastAccepted) ==
  /\ seq # << >> <=> nearest # << >>
  /\ seq # << >> =>
       /\ IsSubsequence(seq, nearest)
       /\ seq[1] = nearest[1]
       /\ seq[Len(seq)] = lastAccepted

\* C34: the sequence SwipeEngine::mapPathToSequence returns is non-empty
\* exactly when a path point maps to a key; it is then a subsequence of the
\* per-sample nearest keys, starts with the key of the first mapped point
\* and ends with the last key the hysteresis accepted.
C34_ExtractorKeepsFirstAndLast ==
  seCalled =>
    LET scan == SEScan(keys_, inPath, Len(inPath))
    IN  ExtractsEnds(seSeq, SENearestKeySequence(keys_, inPath),
                     IF scan.currentKey = 0 THEN "" ELSE keys_[scan.currentKey].id)

\* A path with a point that maps to no key and a bounce that is removed.
C34_Witness ==
  /\ seCalled
  /\ Len(seSeq) >= 1
  /\ Len(SEScan(keys_, inPath, Len(inPath)).rawSequence) > Len(seSeq)
  /\ Len(SENearestKeySequence(keys_, inPath)) < Len(inPath)

\* The same for the key sequence of a GestureAgent swipe result.
C34_GestureAgentKeepsFirstAndLast ==
  \A i \in DOMAIN emitted :
    emitted[i].kind = "swipe" =>
      LET path == emitted[i].path
          scan == GAScan(gaKeys, path, Len(path))
      IN  (lastCall.type = "up" /\ lastCall.pre = "Swiping") =>
            ExtractsEnds(emitted[i].keySequence, GANearestKeySequence(gaKeys, path),
                         IF scan.currentKey = 0 THEN "" ELSE gaKeys[scan.currentKey].id)

\* C35: for the same layout and the same layout-space path, the key
\* sequence GestureAgent::mapPathToKeys computes equals the one
\* SwipeEngine::mapPathToSequence returns.
C35_ExtractorsAgree ==
  seCalled =>
    seSeq = mapPathToKeys([i \in DOMAIN keys_ |-> GAKey(keys_[i])],
                          [i \in DOMAIN inPath |-> [layout |-> inPath[i]]])

\* ------------------------------------------------------------------------
\* Properties of Shark2Engine::recognize's fast path and pruning
\* ------------------------------------------------------------------------
\* C36: every word Shark2Engine::recognize returns has a template, that
\* is, is a word of the loaded dictionary.
C36_RecognizedWordsAreLoaded ==
  rk.op = "Shark2Engine::recognize" =>
    \A i \in 1..Len(rk.ret) :
      \E t \in 1..Len(templates_) : templates_[t].word = rk.ret[i].word

\* C37: when the first start/end pruning pass of a recognize call yields
\* fewer than 10 templates, the pass made with the reduced length estimate
\* yields every template of the first pass.
InSeq(x, seq) == \E i \in 1..Len(seq) : seq[i] = x

C37_ExpansionKeepsCandidates ==
  (rk.op = "Shark2Engine::recognize" /\ rk.inputPoints.size >= 2 /\ templates_ # << >>) =>
    LET start == rk.inputPoints.front
        end   == rk.inputPoints.back
        estimatedLen == EstimatedLen(rk.inputPoints)
    IN  \A cs \in NearestKeys(start), ce \in NearestKeys(end) :
          LET first == pruneByStartEnd(templates_, skBuckets_, start, end,
                                       estimatedLen, cs, ce)
              expanded == pruneByStartEnd(templates_, skBuckets_, start, end,
                                          ExpandedLen(estimatedLen), cs, ce)
          IN  Len(first) < 10 => \A i \in 1..Len(first) : InSeq(first[i], expanded)

====
